---- MODULE Spec2Model ----
(***************************************************************************)
(* A model of IronCode's code-search core:                                 *)
(*   - the tokenizer and the BM25 ranked index (native/tool/src/bm25.rs),  *)
(*   - the index service around it (native/tool/src/codesearch.rs).        *)
(*                                                                         *)
(* Strings are TLA+ strings; a character is a string of length 1.  The     *)
(* model covers ASCII text.  Doc ids are 0-based as in the code; the       *)
(* vectors doc_lengths and symbols are sequences, so slot id is element    *)
(* id + 1.  An f64 that the code obtains as a quotient of two integers is  *)
(* kept as the reduced fraction <<numerator, denominator>>; a BM25 score   *)
(* is kept in hundred-thousandths.                                          *)
(***************************************************************************)
EXTENDS Integers, Sequences, FiniteSets, TLC

VARIABLES
    idx,        \* a Bm25Index driven directly through its public methods
    last,       \* the last search made on idx since idx changed, with its result
    inner,      \* the service's shared index state (struct Inner)
    disk,       \* the files of the project: path -> content (NoFile if absent)
    out,        \* what the last service call returned
    lock,       \* the holder of the mutex INDEX, when calls run concurrently
    threads,    \* the concurrent callers: thread -> the call it is in
    file_bytes, \* the bytes of a file handed to the symbol extractor
    extracted,  \* what the extractor did with file_bytes
    input,      \* a text handed to the tokenizer
    terms,      \* what the tokenizer returned for input
    locks,      \* the lock registry: key -> LockState
    clients     \* the clients of the lock registry: client -> where it is

vars == <<idx, last, inner, disk, out, lock, threads, file_bytes, extracted, input, terms,
          locks, clients>>

\* The variables of the concurrent callers, of the extractor's driver, of
\* the tokenizer's driver and of the lock registry.
concVars == <<lock, threads>>
extractVars == <<file_bytes, extracted>>
tokenizeVars == <<input, terms>>
lockVars == <<locks, clients>>

\* ------------------------------------------------------------------ bounds

\* Doc ids handed to the directly driven index are 0..MaxDocId.
MaxDocId == 1
\* The direct driver stops adding once num_docs has reached this value
\* (num_docs is a usize that the code never caps).
MaxNumDocs == 3
\* The clients of the lock registry stop requesting a key once its
\* next_ticket has reached this value (a u64 that the code never caps).
MaxTicket == 4

\* --------------------------------------------------------------- utilities

Min(a, b) == IF a < b THEN a ELSE b
Max(a, b) == IF a > b THEN a ELSE b

RECURSIVE GCD(_, _)
GCD(a, b) == IF b = 0 THEN a ELSE GCD(b, a % b)

\* total as f64 / count as f64, as a reduced fraction.
Frac(n, d) == LET g == GCD(n, d) IN <<n \div g, d \div g>>
\* 0.0
FZero == <<0, 1>>

Range(s) == {s[i] : i \in DOMAIN s}

\* The sequences that list every element of the set S exactly once.
Perms(S) ==
    {p \in [1..Cardinality(S) -> S] : \A i, j \in 1..Cardinality(S) : i # j => p[i] # p[j]}

CharAt(s, i) == SubSeq(s, i, i)

\* ---------------------------------------------------------------- tokenizer

K1x10 == 12
Bx100 == 75
MIN_TOKEN_LEN == 2

STOP_WORDS ==
    {"fn", "let", "const", "var", "if", "else", "return", "pub", "use", "mod",
     "impl", "struct", "enum", "trait", "type", "async", "await", "match",
     "true", "false", "null", "undefined", "void", "new", "class", "extends",
     "import", "export", "from", "default", "function", "this", "self",
     "super", "of", "as", "with", "not", "do", "while", "for", "try", "catch",
     "throw", "get", "set", "the", "a", "an", "and", "or", "but", "in", "on",
     "at", "to", "is", "it", "be", "was", "are", "has", "have", "had", "that",
     "mut", "ref", "priv", "crate"}

UpperChars ==
    {"A", "B", "C", "D", "E", "F", "G", "H", "I", "J", "K", "L", "M",
     "N", "O", "P", "Q", "R", "S", "T", "U", "V", "W", "X", "Y", "Z"}
LowerChars ==
    {"a", "b", "c", "d", "e", "f", "g", "h", "i", "j", "k", "l", "m",
     "n", "o", "p", "q", "r", "s", "t", "u", "v", "w", "x", "y", "z", "é"}
DigitChars == {"0", "1", "2", "3", "4", "5", "6", "7", "8", "9"}

\* The characters of the texts of the model that take two bytes in UTF-8;
\* every other one takes one.
WideChars == {"é"}

\* str::len: the number of bytes.
str_len(s) == Len(s) + Cardinality({i \in 1..Len(s) : CharAt(s, i) \in WideChars})

\* char::is_whitespace, on ASCII.
WhitespaceChars == {" ", "\t", "\n", "\r", "\f"}

\* The closure separators of tokenize.  The backquote, which it also lists,
\* cannot be written in a string of this language: texts of the model hold none.
separators ==
    WhitespaceChars \cup
    {".", ",", ";", ":", "!", "?", "(", ")", "[", "]", "{", "}", "\"", "'",
     "/", "\\", "|", "<", ">", "@", "#", "$", "%", "^", "&", "*", "+",
     "=", "~", "-"}

LowerOf ==
    [c \in UpperChars |->
        CASE c = "A" -> "a" [] c = "B" -> "b" [] c = "C" -> "c" [] c = "D" -> "d"
          [] c = "E" -> "e" [] c = "F" -> "f" [] c = "G" -> "g" [] c = "H" -> "h"
          [] c = "I" -> "i" [] c = "J" -> "j" [] c = "K" -> "k" [] c = "L" -> "l"
          [] c = "M" -> "m" [] c = "N" -> "n" [] c = "O" -> "o" [] c = "P" -> "p"
          [] c = "Q" -> "q" [] c = "R" -> "r" [] c = "S" -> "s" [] c = "T" -> "t"
          [] c = "U" -> "u" [] c = "V" -> "v" [] c = "W" -> "w" [] c = "X" -> "x"
          [] c = "Y" -> "y" [] c = "Z" -> "z"]

\* str::to_lowercase, on the characters of the model.
RECURSIVE to_lowercase(_)
to_lowercase(s) ==
    IF Len(s) = 0 THEN ""
    ELSE LET c == CharAt(s, 1)
         IN (IF c \in UpperChars THEN LowerOf[c] ELSE c) \o to_lowercase(SubSeq(s, 2, Len(s)))

\* str::split(pattern): the pieces between the characters of seps, empty
\* pieces included; cur is the piece being read from position i on.
RECURSIVE SplitFrom(_, _, _, _)
SplitFrom(s, seps, i, cur) ==
    IF i > Len(s) THEN <<cur>>
    ELSE LET c == CharAt(s, i)
         IN IF c \in seps
            THEN <<cur>> \o SplitFrom(s, seps, i + 1, "")
            ELSE SplitFrom(s, seps, i + 1, cur \o c)

Split(s, seps) == SplitFrom(s, seps, 1, "")

NonEmpty(pieces) == SelectSeq(pieces, LAMBDA p : Len(p) > 0)

\* The loop of split_camel from character i on: result so far, current
\* piece and prev_lower.
RECURSIVE SplitCamelFrom(_, _, _, _, _)
SplitCamelFrom(s, i, result, current, prev_lower) ==
    IF i > Len(s)
    THEN IF Len(current) > 0 THEN Append(result, current) ELSE result
    ELSE LET ch == CharAt(s, i)
             cut == ch \in UpperChars /\ prev_lower /\ Len(current) > 0
         IN SplitCamelFrom(s, i + 1,
                           IF cut THEN Append(result, current) ELSE result,
                           (IF cut THEN "" ELSE current) \o ch,
                           ch \in LowerChars)

split_camel(s) == SplitCamelFrom(s, 1, <<>>, "", FALSE)

RECURSIVE Flatten(_)
Flatten(ss) == IF Len(ss) = 0 THEN <<>> ELSE Head(ss) \o Flatten(Tail(ss))

split_identifier(word) ==
    LET underscore_parts == NonEmpty(Split(word, {"_"}))
        camel == split_camel(word)
    IN IF Len(underscore_parts) > 1
       THEN Append(Flatten([i \in 1..Len(underscore_parts) |-> split_camel(underscore_parts[i])]),
                   to_lowercase(word))
       ELSE IF Len(camel) > 1
            THEN Append(camel, to_lowercase(word))
            ELSE camel

AllDigits(s) == \A i \in 1..Len(s) : CharAt(s, i) \in DigitChars

\* The filter of tokenize without the stop-word test.
KeepToken_keeps_stop_words(lower) ==
    /\ str_len(lower) >= MIN_TOKEN_LEN
    /\ ~AllDigits(lower)

\* The filter tokenize applies to each lowercased piece.
KeepToken(lower) ==
    /\ str_len(lower) >= MIN_TOKEN_LEN
    /\ lower \notin STOP_WORDS
    /\ ~AllDigits(lower)

\* The terms of a list without those that occurred before in it.
RECURSIVE Distinct(_)
Distinct(ts) ==
    IF Len(ts) = 0 THEN <<>>
    ELSE LET front == Distinct(SubSeq(ts, 1, Len(ts) - 1))
         IN IF \E i \in DOMAIN front : front[i] = ts[Len(ts)]
            THEN front
            ELSE Append(front, ts[Len(ts)])

\* tokenize returning every term once.
tokenize_distinct(text) ==
    LET words == NonEmpty(Split(text, separators))
        subs == Flatten([i \in 1..Len(words) |-> split_identifier(words[i])])
        lowered == [i \in 1..Len(subs) |-> to_lowercase(subs[i])]
    IN Distinct(SelectSeq(lowered, KeepToken))

tokenize(text) ==
    LET words == NonEmpty(Split(text, separators))
        subs == Flatten([i \in 1..Len(words) |-> split_identifier(words[i])])
        lowered == [i \in 1..Len(subs) |-> to_lowercase(subs[i])]
    IN SelectSeq(lowered, KeepToken)

\* ------------------------------------------------------------- ranked index

\* Bm25Index::new.
NewBm25Index ==
    [inverted_index |-> [t \in {} |-> <<>>],
     doc_lengths |-> <<>>,
     num_docs |-> 0,
     avg_doc_length |-> FZero]

\* The doc ids whose recorded length is > 0.
LiveIds(ix) == {i - 1 : i \in {j \in DOMAIN ix.doc_lengths : ix.doc_lengths[j] > 0}}

RECURSIVE SumSeq(_)
SumSeq(s) == IF Len(s) = 0 THEN 0 ELSE Head(s) + SumSeq(Tail(s))

\* recalculate_avg averaging over every slot of doc_lengths, removed ones
\* included.
recalculate_avg_all_slots(ix) ==
    LET total == SumSeq(ix.doc_lengths)
        count == Len(ix.doc_lengths)
    IN [ix EXCEPT !.avg_doc_length = IF count > 0 THEN Frac(total, count) ELSE FZero]

recalculate_avg(ix) ==
    LET kept == SelectSeq(ix.doc_lengths, LAMBDA l : l > 0)
        total == SumSeq(kept)
        count == Len(kept)
    IN [ix EXCEPT !.avg_doc_length = IF count > 0 THEN Frac(total, count) ELSE FZero]

\* The retain on every posting list, with the terms dropped whose list it
\* empties.
Scrub_pruning(inverted_index, doc_id) ==
    [t \in {u \in DOMAIN inverted_index :
                \E i \in DOMAIN inverted_index[u] : inverted_index[u][i][1] # doc_id} |->
        SelectSeq(inverted_index[t], LAMBDA p : p[1] # doc_id)]

\* Vec::retain(|(id, _)| *id != doc_id) on every posting list.
Scrub(inverted_index, doc_id) ==
    [t \in DOMAIN inverted_index |->
        SelectSeq(inverted_index[t], LAMBDA p : p[1] # doc_id)]

\* remove_document leaving the posting lists as they are.
remove_document_no_scrub(ix, doc_id) ==
    IF doc_id >= Len(ix.doc_lengths) \/ ix.doc_lengths[doc_id + 1] = 0
    THEN ix
    ELSE recalculate_avg(
             [ix EXCEPT !.doc_lengths[doc_id + 1] = 0,
                        !.num_docs = Max(@ - 1, 0)])

\* remove_document returning early only for an id beyond the length table.
remove_document_unguarded(ix, doc_id) ==
    IF doc_id >= Len(ix.doc_lengths)
    THEN ix
    ELSE recalculate_avg(
             [ix EXCEPT !.doc_lengths[doc_id + 1] = 0,
                        !.num_docs = Max(@ - 1, 0),
                        !.inverted_index = Scrub(@, doc_id)])

remove_document(ix, doc_id) ==
    IF doc_id >= Len(ix.doc_lengths) \/ ix.doc_lengths[doc_id + 1] = 0
    THEN ix
    ELSE recalculate_avg(
             [ix EXCEPT !.doc_lengths[doc_id + 1] = 0,
                        !.num_docs = Max(@ - 1, 0),
                        !.inverted_index = Scrub(@, doc_id)])

\* Vec::resize(n, 0) when the vector is shorter than n.
Resize(v, n) == IF n > Len(v) THEN v \o [i \in 1..(n - Len(v)) |-> 0] ELSE v

\* The term frequencies of a token list: term -> number of occurrences.
TermFreq(tokens) ==
    [t \in Range(tokens) |-> Cardinality({i \in DOMAIN tokens : tokens[i] = t})]

\* entry(term).or_default().push((doc_id, count)) for every term of tf.
PushPostings(inverted_index, doc_id, tf) ==
    [t \in (DOMAIN inverted_index) \cup (DOMAIN tf) |->
        (IF t \in DOMAIN inverted_index THEN inverted_index[t] ELSE <<>>)
        \o (IF t \in DOMAIN tf THEN << <<doc_id, tf[t]>> >> ELSE <<>>)]

\* add_document without the removal of a document that already exists.
add_document_no_remove(ix, doc_id, tokens) ==
    LET grown == [ix EXCEPT !.doc_lengths = Resize(@, doc_id + 1)]
    IN recalculate_avg(
           [grown EXCEPT !.doc_lengths[doc_id + 1] = Len(tokens),
                         !.inverted_index = PushPostings(@, doc_id, TermFreq(tokens)),
                         !.num_docs = @ + 1])

add_document(ix, doc_id, tokens) ==
    LET grown == [ix EXCEPT !.doc_lengths = Resize(@, doc_id + 1)]
        cleared == IF grown.doc_lengths[doc_id + 1] > 0
                   THEN remove_document(grown, doc_id)
                   ELSE grown
    IN recalculate_avg(
           [cleared EXCEPT !.doc_lengths[doc_id + 1] = Len(tokens),
                           !.inverted_index = PushPostings(@, doc_id, TermFreq(tokens)),
                           !.num_docs = @ + 1])

\* f64::ln in the scores' unit: round(ln(n) * 100000) for n = 1..32.
LnTable ==
    <<0, 69315, 109861, 138629, 160944, 179176, 194591, 207944,
      219722, 230259, 239790, 248491, 256495, 263906, 270805, 277259,
      283321, 289037, 294444, 299573, 304452, 309104, 313549, 317805,
      321888, 325810, 329584, 333220, 336730, 340120, 343399, 346574>>

\* The inverse document frequency without the 1.0 added before the
\* logarithm: ((n - df + 0.5) / (df + 0.5)).ln().max(0.0).
Idf_without_one(n, df) ==
    Max(LnTable[Max(2 * n - 2 * df + 1, 1)] - LnTable[2 * df + 1], 0)

\* ((n - df + 0.5) / (df + 0.5) + 1.0).ln().max(0.0), in hundred-thousandths: the
\* argument of ln is (2n + 2) / (2df + 1).
Idf(n, df) == Max(LnTable[2 * n + 2] - LnTable[2 * df + 1], 0)

\* self.avg_doc_length.max(1.0)
Avgdl(ix) ==
    IF ix.avg_doc_length[1] < ix.avg_doc_length[2] THEN <<1, 1>> ELSE ix.avg_doc_length

\* The term score without the length of the document: B taken as 0.
TermScore_without_length(idf, tf, dl, avgdl) ==
    (idf * tf * (K1x10 + 10)) \div (10 * tf + K1x10)

\* idf * (tf * (K1 + 1.0)) / (tf + K1 * (1.0 - B + B * dl / avgdl)), with
\* numerator and denominator multiplied by 10 * avgdl's numerator
\* (K1 * (1 - B) = 0.3 and K1 * B = 0.9 are whole tenths).
TermScore(idf, tf, dl, avgdl) ==
    (idf * tf * (K1x10 + 10) * avgdl[1])
    \div (10 * tf * avgdl[1] + ((K1x10 * (100 - Bx100)) \div 100) * avgdl[1]
          + ((K1x10 * Bx100) \div 100) * dl * avgdl[2])

\* doc_lengths.get(doc_id).copied().unwrap_or(0)
DocLen(ix, doc_id) ==
    IF doc_id < Len(ix.doc_lengths) THEN ix.doc_lengths[doc_id + 1] ELSE 0

\* What the loop over one query token adds to the score of doc d.
TokenScore(ix, token, d) ==
    IF token \notin DOMAIN ix.inverted_index THEN 0
    ELSE LET postings == ix.inverted_index[token]
             idf == Idf(ix.num_docs, Len(postings))
             mine == SelectSeq(postings, LAMBDA p : p[1] = d /\ DocLen(ix, d) # 0)
         IN SumSeq([i \in 1..Len(mine) |->
                       TermScore(idf, mine[i][2], DocLen(ix, d), Avgdl(ix))])

\* The map scores after the loop over the query tokens: its keys are the
\* docs some posting of a query token names and whose length is not 0.
Scores(ix, query_tokens) ==
    LET hit == {d \in LiveIds(ix) :
                   \E i \in DOMAIN query_tokens :
                       /\ query_tokens[i] \in DOMAIN ix.inverted_index
                       /\ \E j \in DOMAIN ix.inverted_index[query_tokens[i]] :
                              ix.inverted_index[query_tokens[i]][j][1] = d}
    IN [d \in hit |->
           SumSeq([i \in 1..Len(query_tokens) |-> TokenScore(ix, query_tokens[i], d)])]

\* Where a stable descending sort puts e in the sorted sequence s: after
\* every element whose score is not smaller.
RECURSIVE InsertDesc(_, _)
InsertDesc(s, e) ==
    IF Len(s) = 0 THEN <<e>>
    ELSE IF Head(s)[2] >= e[2]
         THEN <<Head(s)>> \o InsertDesc(Tail(s), e)
         ELSE <<e>> \o s

\* results.sort_by(|a, b| b.1.partial_cmp(&a.1)...): stable, descending.
RECURSIVE SortDesc(_)
SortDesc(s) ==
    IF Len(s) = 0 THEN <<>>
    ELSE InsertDesc(SortDesc(SubSeq(s, 1, Len(s) - 1)), s[Len(s)])

\* Vec::truncate
Truncate(s, k) == SubSeq(s, 1, Min(k, Len(s)))

\* search without the sort: the results stay in the hash map's order.
search_unsorted(ix, query_tokens, top_k, order) ==
    IF ix.num_docs = 0 \/ Len(query_tokens) = 0 THEN <<>>
    ELSE LET scores == Scores(ix, query_tokens)
             results == [i \in 1..Len(order) |-> <<order[i], scores[order[i]]>>]
         IN Truncate(results, top_k)

\* Bm25Index::search, given the order in which the hash map scores yields
\* its entries (a HashMap iterates in an unspecified order).
search(ix, query_tokens, top_k, order) ==
    IF ix.num_docs = 0 \/ Len(query_tokens) = 0 THEN <<>>
    ELSE LET scores == Scores(ix, query_tokens)
             results == [i \in 1..Len(order) |-> <<order[i], scores[order[i]]>>]
         IN Truncate(SortDesc(results), top_k)

\* The iteration orders the hash map scores may have.
ScoreOrders(ix, query_tokens) ==
    IF ix.num_docs = 0 \/ Len(query_tokens) = 0 THEN {<<>>}
    ELSE Perms(DOMAIN Scores(ix, query_tokens))


\* ------------------------------------------------------------ byte strings

\* A byte string (a &[u8], or the bytes of a str) is a sequence of pieces.
\* A piece stands for n repetitions of
\*   kind "ascii": the ASCII text text, one byte per character;
\*   kind "char":  one character that is not ASCII, named by text, whose
\*                 UTF-8 encoding has width bytes;
\*   kind "bad":   one byte that is not UTF-8 on its own (0xFF, or one of
\*                 the bytes of a character that a byte slice has cut).
Ascii(text) == [kind |-> "ascii", text |-> text, width |-> 1, n |-> 1]
Bad(count) == [kind |-> "bad", text |-> "", width |-> 1, n |-> count]
Times(piece, count) == [piece EXCEPT !.n = count]

\* The line feed.
NL == Ascii("\n")

\* The number of bytes of a piece and of a byte string ([u8]::len, str::len).
PieceLen(piece) ==
    IF piece.kind = "ascii" THEN Len(piece.text) * piece.n ELSE piece.width * piece.n

RECURSIVE ByteLen(_)
ByteLen(bytes) ==
    IF Len(bytes) = 0 THEN 0 ELSE PieceLen(Head(bytes)) + ByteLen(Tail(bytes))

\* The first k bytes of a piece, for 0 < k < PieceLen(piece): whole
\* repetitions, then the start of one more; the start of a character that
\* is not ASCII is bytes that are not UTF-8.
TakePiece(piece, k) ==
    LET unit == IF piece.kind = "ascii" THEN Len(piece.text) ELSE piece.width
        full == k \div unit
        rem == k % unit
    IN (IF full > 0 THEN <<Times(piece, full)>> ELSE <<>>)
       \o (IF rem = 0 THEN <<>>
           ELSE IF piece.kind = "ascii" THEN <<Ascii(SubSeq(piece.text, 1, rem))>>
           ELSE <<Bad(rem)>>)

\* What is left of a piece after its first k bytes, for 0 < k < PieceLen(piece).
DropPiece(piece, k) ==
    LET unit == IF piece.kind = "ascii" THEN Len(piece.text) ELSE piece.width
        full == k \div unit
        rem == k % unit
        left == piece.n - full - (IF rem > 0 THEN 1 ELSE 0)
    IN (IF rem = 0 THEN <<>>
        ELSE IF piece.kind = "ascii" THEN <<Ascii(SubSeq(piece.text, rem + 1, unit))>>
        ELSE <<Bad(unit - rem)>>)
       \o (IF left > 0 THEN <<Times(piece, left)>> ELSE <<>>)

\* &bytes[..k], for k <= ByteLen(bytes).
RECURSIVE TakeBytes(_, _)
TakeBytes(bytes, k) ==
    IF k = 0 \/ Len(bytes) = 0 THEN <<>>
    ELSE IF PieceLen(Head(bytes)) <= k
         THEN <<Head(bytes)>> \o TakeBytes(Tail(bytes), k - PieceLen(Head(bytes)))
         ELSE TakePiece(Head(bytes), k)

\* &bytes[k..], for k <= ByteLen(bytes).
RECURSIVE DropBytes(_, _)
DropBytes(bytes, k) ==
    IF k = 0 \/ Len(bytes) = 0 THEN bytes
    ELSE IF PieceLen(Head(bytes)) <= k
         THEN DropBytes(Tail(bytes), k - PieceLen(Head(bytes)))
         ELSE DropPiece(Head(bytes), k) \o Tail(bytes)

\* &bytes[start..end]
Slice(bytes, start, end) == TakeBytes(DropBytes(bytes, start), end - start)

\* std::str::from_utf8(bytes).is_ok()
IsUtf8(bytes) == \A i \in DOMAIN bytes : bytes[i].kind # "bad"

\* str::is_char_boundary(k) on the str whose bytes are bytes, for
\* k <= ByteLen(bytes): no character is cut by taking the first k bytes.
is_char_boundary(bytes, k) == IsUtf8(TakeBytes(bytes, k))

\* The text of a piece and of a byte string that is UTF-8; a character
\* that is not ASCII is written by its name.
RECURSIVE PieceText(_)
PieceText(piece) ==
    IF piece.n = 0 THEN ""
    ELSE piece.text \o PieceText(Times(piece, piece.n - 1))

RECURSIVE Utf8Text(_)
Utf8Text(bytes) ==
    IF Len(bytes) = 0 THEN "" ELSE PieceText(Head(bytes)) \o Utf8Text(Tail(bytes))

\* std::fs::read on a file whose text is an ASCII text.
ReadBytes(text) == IF Len(text) = 0 THEN <<>> ELSE <<Ascii(text)>>

\* The pieces of an ASCII text around its line feeds, each line feed as the
\* piece NL.
AtomsOfText(text) ==
    LET parts == Split(text, {"\n"})
    IN Flatten([i \in 1..Len(parts) |->
                   (IF i > 1 THEN <<NL>> ELSE <<>>)
                   \o (IF Len(parts[i]) > 0 THEN <<Ascii(parts[i])>> ELSE <<>>)])

\* A byte string as pieces in which a line feed occurs only as the piece NL.
Atoms(bytes) ==
    Flatten([i \in 1..Len(bytes) |->
                IF bytes[i].kind = "ascii"
                   /\ \E j \in 1..Len(bytes[i].text) : CharAt(bytes[i].text, j) = "\n"
                THEN Flatten([r \in 1..bytes[i].n |-> AtomsOfText(bytes[i].text)])
                ELSE <<bytes[i]>>])

\* The byte strings between the NL pieces of atoms, from atom i on; cur is
\* the one being read.
RECURSIVE SplitAtNL(_, _, _)
SplitAtNL(atoms, i, cur) ==
    IF i > Len(atoms) THEN <<cur>>
    ELSE IF atoms[i] = NL
         THEN <<cur>> \o SplitAtNL(atoms, i + 1, <<>>)
         ELSE SplitAtNL(atoms, i + 1, Append(cur, atoms[i]))

\* A line without the carriage return that ends it, if one does.
StripCr(line) ==
    IF Len(line) = 0 THEN line
    ELSE LET piece == line[Len(line)]
             len == Len(piece.text)
         IN IF piece.kind = "ascii" /\ CharAt(piece.text, len) = "\r"
            THEN SubSeq(line, 1, Len(line) - 1)
                 \o (IF piece.n > 1 THEN <<Times(piece, piece.n - 1)>> ELSE <<>>)
                 \o (IF len > 1 THEN <<Ascii(SubSeq(piece.text, 1, len - 1))>> ELSE <<>>)
            ELSE line

\* The lines of str::lines, given the byte strings parts between the line
\* feeds: the lines that end with a line feed, without a carriage return
\* before it, then what follows the last line feed, if anything does.
EndedLines(parts) ==
    IF Len(parts[Len(parts)]) = 0
    THEN [i \in 1..(Len(parts) - 1) |-> StripCr(parts[i])]
    ELSE Append([i \in 1..(Len(parts) - 1) |-> StripCr(parts[i])], parts[Len(parts)])

\* str::lines
Lines(bytes) == EndedLines(SplitAtNL(Atoms(bytes), 1, <<>>))

\* [&str]::join("\n")
RECURSIVE JoinLines(_)
JoinLines(ls) ==
    IF Len(ls) = 0 THEN <<>>
    ELSE IF Len(ls) = 1 THEN ls[1]
    ELSE ls[1] \o <<NL>> \o JoinLines(Tail(ls))

\* ------------------------------------------------------ symbol extraction

MAX_CONTENT_BYTES == 8192
CHUNK_SIZE == 50
OVERLAP == 10

\* Path::extension of a file name: what follows its last dot; no extension
\* when there is no dot or the only dot is the first character.
Extension(path) ==
    LET dots == {i \in 1..Len(path) : CharAt(path, i) = "."}
        lastDot == CHOOSE i \in dots : \A j \in dots : j <= i
    IN IF dots = {} \/ lastDot = 1 THEN "" ELSE SubSeq(path, lastDot + 1, Len(path))

\* No language: detect_language's None.
NoLanguage == "None"

detect_language(path) ==
    LET ext == Extension(path)
    IN CASE ext = "ts" -> "TypeScript"
         [] ext = "tsx" -> "TypeScriptX"
         [] ext \in {"js", "mjs", "cjs"} -> "JavaScript"
         [] ext = "jsx" -> "JavaScriptX"
         [] ext \in {"py", "pyw"} -> "Python"
         [] ext = "rs" -> "Rust"
         [] ext = "go" -> "Go"
         [] ext = "java" -> "Java"
         [] ext = "cs" -> "CSharp"
         [] ext \in {"rb", "rake", "gemspec"} -> "Ruby"
         [] ext \in {"c", "h"} -> "C"
         [] ext \in {"cpp", "cc", "cxx", "hpp", "hxx"} -> "Cpp"
         [] ext \in {"php", "php8", "php7"} -> "Php"
         [] ext \in {"scala", "sc"} -> "Scala"
         [] OTHER -> NoLanguage

language_name(lang) ==
    CASE lang \in {"TypeScript", "TypeScriptX"} -> "typescript"
      [] lang \in {"JavaScript", "JavaScriptX"} -> "javascript"
      [] lang = "Python" -> "python"
      [] lang = "Rust" -> "rust"
      [] lang = "Go" -> "go"
      [] lang = "Java" -> "java"
      [] lang = "CSharp" -> "csharp"
      [] lang = "Ruby" -> "ruby"
      [] lang = "C" -> "c"
      [] lang = "Cpp" -> "cpp"
      [] lang = "Php" -> "php"
      [] lang = "Scala" -> "scala"

\* The file texts of the model.
PyLogin == "def login(user, password): pass"
PyLogout == "def logout(session): pass"
JsTiny == "function f() {}"
JsGetUser == "function getUser(id) {}"
NotesText == "login notes"
PyReadFile == "def read_file(path): pass"
PyWriteFile == "def write_file(path): pass"
PyReadWrite == PyReadFile \o "\n" \o PyWriteFile

\* The start and the end of a one-line Python function that returns a
\* string literal: def run(): return '...'
DefHead == Ascii("def run(): return '")
Quote == Ascii("'")

\* One node of the syntax tree: a declaration with its name, its kind, the
\* bytes start..end of the node (end exclusive) and its first and last row.
Node(name, kind, end) ==
    [name |-> name, kind |-> kind, start |-> 0, end |-> end,
     row_start |-> 0, row_end |-> 0]

\* What the tree-sitter parser and the per-language walk find in a file:
\* its declarations.  The parser is an external library; its results are
\* tabulated for the files of the model: the one-line functions above, and
\* a string literal of one piece without a line feed between DefHead and
\* Quote; no declaration in any other file.
Declarations(source) ==
    CASE source = ReadBytes(PyLogin) -> <<Node("login", "function", Len(PyLogin))>>
      [] source = ReadBytes(PyLogout) -> <<Node("logout", "function", Len(PyLogout))>>
      [] source = ReadBytes(PyReadFile) ->
             <<Node("read_file", "function", Len(PyReadFile))>>
      [] source = ReadBytes(PyReadWrite) ->
             <<Node("read_file", "function", Len(PyReadFile)),
               [name |-> "write_file", kind |-> "function",
                start |-> Len(PyReadFile) + 1, end |-> Len(PyReadWrite),
                row_start |-> 1, row_end |-> 1]>>
      [] source = ReadBytes(JsTiny) -> <<Node("f", "function", Len(JsTiny))>>
      [] source = ReadBytes(JsGetUser) -> <<Node("getUser", "function", Len(JsGetUser))>>
      [] /\ Len(source) = 3
         /\ source[1] = DefHead
         /\ source[3] = Quote
         /\ source[2].kind # "bad"
         /\ source[2] # NL
         /\ source[2] # Quote
            -> <<Node("run", "function", ByteLen(source))>>
      [] OTHER -> <<>>

\* from_utf8(bytes).unwrap_or(""): the bytes if they are UTF-8, and the empty
\* string if they are not.
Utf8OrEmpty(bytes) == IF IsUtf8(bytes) THEN bytes ELSE <<>>

\* make_symbol: the content is the node's bytes up to the cap if they are
\* UTF-8, and empty if they are not.
make_symbol(node, source, file_path, language) ==
    [file_path |-> file_path,
     line_start |-> node.row_start + 1,
     line_end |-> node.row_end + 1,
     name |-> node.name,
     kind |-> node.kind,
     content |-> Utf8OrEmpty(Slice(source, node.start,
                                   Min(node.end, node.start + MAX_CONTENT_BYTES))),
     language |-> language]

\* The windows start..end of the loop of chunk_by_lines over total lines,
\* from the window that begins at start (0-based, end exclusive).
RECURSIVE Windows(_, _)
Windows(total, start) ==
    LET end == Min(start + CHUNK_SIZE, total)
    IN IF end >= total
       THEN << <<start, end>> >>
       ELSE << <<start, end>> >> \o Windows(total, Max(end - OVERLAP, 0))

\* lines[start..end].join("\n") for a window.
WindowContent(lines, window) == JoinLines(SubSeq(lines, window[1] + 1, window[2]))

\* Whether the str slice content[..min(content.len(), MAX_CONTENT_BYTES)]
\* panics: it does not end on a character boundary.
CapPanics(content) ==
    ~is_char_boundary(content, Min(ByteLen(content), MAX_CONTENT_BYTES))

\* Whether the slice of some window's content panics.
SomeWindowPanics(lines, windows) ==
    \E i \in DOMAIN windows : CapPanics(WindowContent(lines, windows[i]))

\* The loop of chunk_by_lines panics on lines.
ChunkLoopPanics(lines) ==
    Len(lines) > 0 /\ SomeWindowPanics(lines, Windows(Len(lines), 0))

\* Whether chunk_by_lines panics: the str slice of some window's content
\* does not end on a character boundary.
chunk_by_lines_panics(file_path, source, lang_name) ==
    IsUtf8(source) /\ ChunkLoopPanics(Lines(source))

\* The chunk chunk_by_lines pushes for one window, given the window's
\* joined lines.
Chunk(file_path, lang_name, window, content) ==
    [file_path |-> file_path,
     line_start |-> window[1] + 1,
     line_end |-> window[2],
     name |-> "lines " \o ToString(window[1] + 1) \o "-" \o ToString(window[2]),
     kind |-> "chunk",
     content |-> TakeBytes(content, Min(ByteLen(content), MAX_CONTENT_BYTES)),
     language |-> lang_name]

\* One chunk per window.
Chunks(file_path, lang_name, lines, windows) ==
    [i \in DOMAIN windows |->
        Chunk(file_path, lang_name, windows[i], WindowContent(lines, windows[i]))]

\* The loop of chunk_by_lines over lines: no window when there is no line.
ChunkLoop(file_path, lang_name, lines) ==
    Chunks(file_path, lang_name, lines,
           IF Len(lines) = 0 THEN <<>> ELSE Windows(Len(lines), 0))

\* What chunk_by_lines returns when it does not panic: nothing for a file
\* that is not UTF-8 or has no line, and one chunk per window otherwise.
chunk_by_lines(file_path, source, lang_name) ==
    IF ~IsUtf8(source) THEN <<>>
    ELSE ChunkLoop(file_path, lang_name, Lines(source))

\* Whether extract_symbols panics: it falls back to chunk_by_lines, which
\* panics.
extract_symbols_panics(file_path, source, lang) ==
    /\ Len(Declarations(source)) = 0
    /\ chunk_by_lines_panics(file_path, source, language_name(lang))

\* The symbols made of the declarations nodes.
DeclaredSymbols(nodes, source, file_path, language) ==
    [i \in 1..Len(nodes) |-> make_symbol(nodes[i], source, file_path, language)]

\* The fallback of extract_symbols: the line chunks when no symbol was
\* made of a declaration.
OrChunks(symbols, file_path, source, language) ==
    IF Len(symbols) = 0 THEN chunk_by_lines(file_path, source, language) ELSE symbols

\* What extract_symbols returns when it does not panic.
extract_symbols(file_path, source, lang) ==
    OrChunks(DeclaredSymbols(Declarations(source), source, file_path, language_name(lang)),
             file_path, source, language_name(lang))

\* ------------------------------------------------------------------ inputs

MAX_FILE_BYTES == 524288

\* The documents of tests::test_bm25_basic: document i - 1 is BasicDocs[i].
BasicDocs ==
    <<"authenticate user login password session",
      "read file from disk path",
      "user profile update name email">>

\* The query of tests::test_bm25_basic.
BasicQuery == "user authentication"

\* The texts whose tokens are added as documents by the general driver: two
\* of the test's, one with a repeated term and one whose tokens are all
\* filtered out.
DocTexts == {BasicDocs[1], BasicDocs[3], "user_id user", "fn f() {}"}

\* Query strings made only of stop words, numbers, one-letter words and
\* separators.
FilteredQueries == {"", "fn the 42 a"}

\* The query strings.
QueryTexts == {BasicQuery, "path user_id"} \cup FilteredQueries

\* The values of top_k.
TopKs == {0, 1, 5}

\* The files the project may hold (file names, without directories).
Paths == {"auth.py", "lib.js", "notes.txt"}

\* A file of the disk: its text, the length its metadata reports and
\* whether std::fs::read succeeds on it.
File(text) == [text |-> text, len |-> Len(text), readable |-> TRUE]
\* No file at the path.
NoFile == [text |-> "", len |-> -1, readable |-> FALSE]
\* A file over the size cap; the model keeps only the start of its text.
BigFile == [text |-> PyLogout, len |-> MAX_FILE_BYTES + 1, readable |-> TRUE]
\* A file whose metadata can be read and whose bytes cannot (no permission).
Unreadable == [text |-> "", len |-> Len(PyLogin), readable |-> FALSE]

\* The contents each path may be given.
ContentsFor(path) ==
    CASE path = "auth.py" -> {File(PyLogin), File(PyLogout), BigFile, Unreadable}
      [] path = "lib.js" -> {File(JsTiny), File(JsGetUser)}
      [] path = "notes.txt" -> {File(NotesText)}
      [] path = "util.py" -> {File(PyReadFile), File(PyReadWrite)}

\* The files of the two-file project.
ScenarioPaths == {"auth.py", "util.py"}

\* The query strings given to the service.
ServiceQueries == {"login user", "logout"}

\* The query of the two-file scenario, and two more.
ScenarioQuery == "login user"
ScenarioQueries == {ScenarioQuery, "read file", "logout"}

\* The values of top_k given to the service.
ServiceTopKs == {1, 5}

\* The text add_file indexes for a symbol: "{name} {kind} {content}".
IndexText(sym) == sym.name \o " " \o sym.kind \o " " \o Utf8Text(sym.content)

\* The index texts of the symbols of the model's files.
SymbolTexts ==
    UNION {UNION {{IndexText(sym) :
                      sym \in Range(extract_symbols(p, ReadBytes(f.text), detect_language(p)))} :
                  f \in ContentsFor(p)} :
           p \in {q \in Paths \cup ScenarioPaths : detect_language(q) # NoLanguage}}

\* Documents that differ in the frequency of a term at equal length, and in
\* length at equal frequency, and the one-term queries on them.
RankTexts ==
    {"user user login", "user login session", "user login", "login session password"}
RankQueries == {"user", "login"}

\* tokenize, tabulated over the texts the model uses.
TokensOf ==
    [t \in Range(BasicDocs) \cup DocTexts \cup QueryTexts \cup ServiceQueries
            \cup ScenarioQueries \cup SymbolTexts \cup RankTexts \cup RankQueries |->
        tokenize(t)]

\* tokenize(text), read from table where table holds the text.
Tabulated(table, text) ==
    IF text \in DOMAIN table THEN table[text] ELSE tokenize(text)

\* tokenize, through the table where the table holds the text.
Tokens(text) == Tabulated(TokensOf, text)

\* ------------------------------------------------------------ index service

\* Option::None and Option::Some(x).
None == <<>>
Some(x) == <<x>>

\* IndexStats::default, without index_time_ms (the elapsed wall-clock time,
\* which no other field depends on).
NewStats == [total_files |-> 0, total_symbols |-> 0, languages |-> [l \in {} |-> 0]]

\* Inner::new.
NewInner ==
    [bm25 |-> NewBm25Index,
     symbols |-> <<>>,
     file_docs |-> [p \in {} |-> <<>>],
     free_ids |-> <<>>,
     next_id |-> 0,
     stats |-> NewStats]

\* alloc_id handing out the last slot again, instead of growing the slot
\* array, when the free list is empty.
alloc_id_reuses_last(inn) ==
    IF Len(inn.free_ids) > 0
    THEN [inner |-> [inn EXCEPT !.free_ids = SubSeq(@, 1, Len(@) - 1)],
          id |-> inn.free_ids[Len(inn.free_ids)]]
    ELSE IF inn.next_id > 0
    THEN [inner |-> inn, id |-> inn.next_id - 1]
    ELSE [inner |-> [inn EXCEPT !.next_id = @ + 1,
                                !.symbols = @ \o [i \in 1..(inn.next_id + 1 - Len(@)) |-> None]],
          id |-> inn.next_id]

\* alloc_id growing the slot array on every call, the free list unread.
alloc_id_always_grows(inn) ==
    [inner |-> [inn EXCEPT !.next_id = @ + 1,
                           !.symbols = @ \o [i \in 1..(inn.next_id + 1 - Len(@)) |-> None]],
     id |-> inn.next_id]

\* Inner::alloc_id: the state after the call and the id returned.
alloc_id(inn) ==
    IF Len(inn.free_ids) > 0
    THEN [inner |-> [inn EXCEPT !.free_ids = SubSeq(@, 1, Len(@) - 1)],
          id |-> inn.free_ids[Len(inn.free_ids)]]
    ELSE [inner |-> [inn EXCEPT !.next_id = @ + 1,
                                !.symbols = @ \o [i \in 1..(inn.next_id + 1 - Len(@)) |-> None]],
          id |-> inn.next_id]

\* The body of remove_file's loop freeing the doc id while the ranked
\* index still holds the document.
RemoveDoc_frees_unscrubbed(inn, doc_id) ==
    IF doc_id < Len(inn.symbols)
    THEN LET slot == inn.symbols[doc_id + 1]
             taken ==
                 IF slot # None
                 THEN [inn EXCEPT
                          !.symbols[doc_id + 1] = None,
                          !.stats.languages =
                              IF slot[1].language \in DOMAIN @
                              THEN [@ EXCEPT ![slot[1].language] = Max(@ - 1, 0)]
                              ELSE @,
                          !.stats.total_symbols = Max(@ - 1, 0)]
                 ELSE inn
         IN [taken EXCEPT !.free_ids = Append(@, doc_id)]
    ELSE inn

\* The body of remove_file's loop for one doc id.
RemoveDoc(inn, doc_id) ==
    LET scrubbed == [inn EXCEPT !.bm25 = remove_document(@, doc_id)]
    IN IF doc_id < Len(scrubbed.symbols)
       THEN LET slot == scrubbed.symbols[doc_id + 1]
                taken ==
                    IF slot # None
                    THEN [scrubbed EXCEPT
                             !.symbols[doc_id + 1] = None,
                             !.stats.languages =
                                 IF slot[1].language \in DOMAIN @
                                 THEN [@ EXCEPT ![slot[1].language] = Max(@ - 1, 0)]
                                 ELSE @,
                             !.stats.total_symbols = Max(@ - 1, 0)]
                    ELSE scrubbed
            IN [taken EXCEPT !.free_ids = Append(@, doc_id)]
       ELSE scrubbed

RECURSIVE RemoveDocs(_, _)
RemoveDocs(inn, doc_ids) ==
    IF Len(doc_ids) = 0 THEN inn
    ELSE RemoveDocs(RemoveDoc(inn, Head(doc_ids)), Tail(doc_ids))

\* remove_file lowering total_files also when the file map has no entry
\* for the file.
inner_remove_file_always_counts(inn, file_path) ==
    LET freed == IF file_path \in DOMAIN inn.file_docs
                 THEN RemoveDocs([inn EXCEPT !.file_docs =
                                     [p \in (DOMAIN @) \ {file_path} |-> @[p]]],
                                 inn.file_docs[file_path])
                 ELSE inn
    IN [freed EXCEPT !.stats.total_files = Max(@ - 1, 0)]

\* remove_file dropping only the file's entry of the file map: its doc ids
\* stay in the ranked index and its symbols stay in their slots.
inner_remove_file_map_only(inn, file_path) ==
    IF file_path \in DOMAIN inn.file_docs
    THEN [inn EXCEPT !.file_docs = [p \in (DOMAIN @) \ {file_path} |-> @[p]],
                     !.stats.total_files = Max(@ - 1, 0)]
    ELSE inn

\* Inner::remove_file.
inner_remove_file(inn, file_path) ==
    IF file_path \in DOMAIN inn.file_docs
    THEN LET doc_ids == inn.file_docs[file_path]
             dropped == [inn EXCEPT !.file_docs =
                            [p \in (DOMAIN @) \ {file_path} |-> @[p]]]
             freed == RemoveDocs(dropped, doc_ids)
         IN [freed EXCEPT !.stats.total_files = Max(@ - 1, 0)]
    ELSE inn

\* The body of add_file's loop for the symbols syms; doc_ids are the ids
\* given out so far.  Returns the state and all the ids.
RECURSIVE AddSymbols(_, _, _)
AddSymbols(inn, syms, doc_ids) ==
    IF Len(syms) = 0 THEN [inner |-> inn, doc_ids |-> doc_ids]
    ELSE LET sym == Head(syms)
             a == alloc_id(inn)
             text == IndexText(sym)
             indexed == [a.inner EXCEPT
                            !.bm25 = add_document(@, a.id, Tokens(text)),
                            !.symbols[a.id + 1] = Some(sym)]
         IN AddSymbols(indexed, Tail(syms), Append(doc_ids, a.id))

\* The counters of add_file counting one symbol for the file, however many
\* it has.
Counted_one_symbol(inn, syms, lang_str) ==
    [inn EXCEPT
        !.stats.languages =
            [l \in (DOMAIN @) \cup {lang_str} |->
                IF l = lang_str
                THEN (IF l \in DOMAIN @ THEN @[l] ELSE 0) + 1
                ELSE @[l]],
        !.stats.total_symbols = @ + 1,
        !.stats.total_files = @ + 1]

\* The counters of add_file: the file and its symbols syms are counted.
Counted(inn, syms, lang_str) ==
    [inn EXCEPT
        !.stats.languages =
            [l \in (DOMAIN @) \cup {lang_str} |->
                IF l = lang_str
                THEN (IF l \in DOMAIN @ THEN @[l] ELSE 0) + Len(syms)
                ELSE @[l]],
        !.stats.total_symbols = @ + Len(syms),
        !.stats.total_files = @ + 1]

\* The end of add_file: the ids given to the file's symbols are recorded
\* in the file map.
Recorded(added, file_path) ==
    [added.inner EXCEPT !.file_docs =
        [p \in (DOMAIN @) \cup {file_path} |->
            IF p = file_path THEN added.doc_ids ELSE @[p]]]

\* add_file from the point where the symbols syms have been extracted:
\* nothing more happens when there is none.
AddExtracted(inn, file_path, syms, lang_str) ==
    IF Len(syms) = 0 THEN inn
    ELSE Recorded(AddSymbols(Counted(inn, syms, lang_str), syms, <<>>), file_path)

\* Inner::add_file without the removal of the file's previous documents.
inner_add_file_merge(inn, file_path, source, lang) ==
    AddExtracted(inn, file_path, extract_symbols(file_path, source, lang),
                 language_name(lang))

\* Inner::add_file.
inner_add_file(inn, file_path, source, lang) ==
    AddExtracted(inner_remove_file(inn, file_path), file_path,
                 extract_symbols(file_path, source, lang), language_name(lang))

\* The stored symbol of each ranked doc id, with its score.
WithSymbols(inn, found) ==
    [i \in 1..Len(found) |->
        [symbol |-> inn.symbols[found[i][1] + 1][1], score |-> found[i][2]]]

\* The ranked doc ids whose slot holds a symbol.
Stored(inn, ranked) ==
    SelectSeq(ranked, LAMBDA r : r[1] < Len(inn.symbols) /\ inn.symbols[r[1] + 1] # None)

\* Inner::search, given the iteration order of the hash map of scores:
\* the stored symbol of each doc id the ranked index returns, with its
\* score; a doc id whose slot is empty is dropped.
inner_search(inn, query, top_k, order) ==
    WithSymbols(inn, Stored(inn, search(inn.bm25, Tokens(query), top_k, order)))

\* Inner::stats, without index_time_ms.
inner_stats(inn) ==
    [total_files |-> inn.stats.total_files,
     total_symbols |-> inn.stats.total_symbols,
     total_terms |-> Cardinality(DOMAIN inn.bm25.inverted_index),
     languages |-> inn.stats.languages]

\* The loop of index_project over the files the walk yields, in its order.
RECURSIVE IndexFiles(_, _, _)
IndexFiles(inn, files, order) ==
    IF Len(order) = 0 THEN inn
    ELSE LET path == Head(order)
             file == files[path]
             lang == detect_language(path)
             skip == file.len > MAX_FILE_BYTES \/ lang = NoLanguage \/ ~file.readable
         IN IndexFiles(IF skip THEN inn
                       ELSE inner_add_file(inn, path, ReadBytes(file.text), lang),
                       files, Tail(order))

\* --------------------------------------------- the index, driven directly

DocIds == 0..MaxDocId

\* No search has been made on idx since it last changed.
NoCall == [op |-> "none"]

AddDocument ==
    \E id \in DocIds, text \in DocTexts :
        /\ idx.num_docs < MaxNumDocs
        /\ idx' = add_document(idx, id, TokensOf[text])
        /\ last' = NoCall
        /\ UNCHANGED <<inner, disk, out, concVars, extractVars, tokenizeVars, lockVars>>

RemoveDocument ==
    \E id \in 0..(MaxDocId + 1) :
        /\ idx' = remove_document(idx, id)
        /\ last' = NoCall
        /\ UNCHANGED <<inner, disk, out, concVars, extractVars, tokenizeVars, lockVars>>

SearchIndex ==
    \E q \in QueryTexts, k \in TopKs :
        \E order \in ScoreOrders(idx, TokensOf[q]) :
            /\ last' = [op |-> "search", query |-> q, top_k |-> k,
                        results |-> search(idx, TokensOf[q], k, order)]
            /\ UNCHANGED <<idx, inner, disk, out, concVars, extractVars, tokenizeVars, lockVars>>

\* The variables of the drivers that a specification does not use stay 0.
InitBm25 ==
    /\ idx = NewBm25Index
    /\ last = NoCall
    /\ inner = 0
    /\ disk = 0
    /\ out = 0
    /\ lock = 0
    /\ threads = 0
    /\ file_bytes = 0
    /\ extracted = 0
    /\ input = 0
    /\ terms = 0
    /\ locks = 0
    /\ clients = 0

NextBm25 == AddDocument \/ RemoveDocument \/ SearchIndex

SpecBm25 == InitBm25 /\ [][NextBm25]_vars

\* tests::test_bm25_basic's calls, in any order and any number of times:
\* document i - 1 of the test is added at doc id i - 1.
AddBasic ==
    \E i \in DOMAIN BasicDocs :
        /\ idx' = add_document(idx, i - 1, TokensOf[BasicDocs[i]])
        /\ last' = NoCall
        /\ UNCHANGED <<inner, disk, out, concVars, extractVars, tokenizeVars, lockVars>>

NextBasic == AddBasic \/ RemoveDocument \/ SearchIndex

SpecBasic == InitBm25 /\ [][NextBasic]_vars

\* ------------------------------------------------------ the service, driven

\* The files present on the disk.
Present(files) == {p \in Paths : files[p] # NoFile}

\* No call has returned since the disk last changed.
NoReturn == [op |-> "none"]

\* The environment writes a file of the project.
WriteFile ==
    \E p \in Paths :
        \E f \in ContentsFor(p) :
            /\ disk[p] # f
            /\ disk' = [disk EXCEPT ![p] = f]
            /\ out' = NoReturn
            /\ UNCHANGED <<idx, last, inner, concVars, extractVars, tokenizeVars, lockVars>>

\* The environment deletes a file of the project.
DeleteFile ==
    \E p \in Paths :
        /\ disk[p] # NoFile
        /\ disk' = [disk EXCEPT ![p] = NoFile]
        /\ out' = NoReturn
        /\ UNCHANGED <<idx, last, inner, concVars, extractVars, tokenizeVars, lockVars>>

\* index_project walking the project without replacing the index by a new
\* one first.
IndexProjectNoReset ==
    \E order \in Perms(Present(disk)) :
        /\ inner' = IndexFiles(inner, disk, order)
        /\ out' = [op |-> "index_project", ret |-> "Ok", stats |-> inner_stats(inner')]
        /\ UNCHANGED <<idx, last, disk, concVars, extractVars, tokenizeVars, lockVars>>

\* index_project replacing the symbol table, the file map and the free
\* list by new ones while the ranked index stays.
IndexProjectKeepsRanked ==
    \E order \in Perms(Present(disk)) :
        /\ inner' = IndexFiles([NewInner EXCEPT !.bm25 = inner.bm25], disk, order)
        /\ out' = [op |-> "index_project", ret |-> "Ok", stats |-> inner_stats(inner')]
        /\ UNCHANGED <<idx, last, disk, concVars, extractVars, tokenizeVars, lockVars>>

\* index_project: the whole call runs with the lock held.  The walk yields
\* the files in an order the file system decides.
IndexProject ==
    \E order \in Perms(Present(disk)) :
        /\ inner' = IndexFiles(NewInner, disk, order)
        /\ out' = [op |-> "index_project", ret |-> "Ok", stats |-> inner_stats(inner')]
        /\ UNCHANGED <<idx, last, disk, concVars, extractVars, tokenizeVars, lockVars>>

\* update_file taking a file over the size cap out of the index instead of
\* leaving the index alone.
UpdateFileDropsOversize ==
    \E p \in Paths :
        /\ inner.bm25.num_docs < MaxNumDocs
        /\ LET lang == detect_language(p)
           IN IF lang = NoLanguage
              THEN /\ out' = [op |-> "update_file", path |-> p, ret |-> "Ok"]
                   /\ UNCHANGED inner
              ELSE IF disk[p] = NoFile
              THEN /\ out' = [op |-> "update_file", path |-> p, ret |-> "Err(stat)"]
                   /\ UNCHANGED inner
              ELSE IF disk[p].len > MAX_FILE_BYTES
              THEN /\ out' = [op |-> "update_file", path |-> p, ret |-> "Ok"]
                   /\ inner' = inner_remove_file(inner, p)
              ELSE IF ~disk[p].readable
              THEN /\ out' = [op |-> "update_file", path |-> p, ret |-> "Err(read)"]
                   /\ UNCHANGED inner
              ELSE /\ inner' = inner_add_file(inner, p, ReadBytes(disk[p].text), lang)
                   /\ out' = [op |-> "update_file", path |-> p, ret |-> "Ok"]
        /\ UNCHANGED <<idx, last, disk, concVars, extractVars, tokenizeVars, lockVars>>

\* update_file reading the file's metadata before it looks at the path's
\* extension.
UpdateFileStatFirst ==
    \E p \in Paths :
        /\ inner.bm25.num_docs < MaxNumDocs
        /\ LET lang == detect_language(p)
           IN IF disk[p] = NoFile
              THEN /\ out' = [op |-> "update_file", path |-> p, ret |-> "Err(stat)"]
                   /\ UNCHANGED inner
              ELSE IF lang = NoLanguage \/ disk[p].len > MAX_FILE_BYTES
              THEN /\ out' = [op |-> "update_file", path |-> p, ret |-> "Ok"]
                   /\ UNCHANGED inner
              ELSE IF ~disk[p].readable
              THEN /\ out' = [op |-> "update_file", path |-> p, ret |-> "Err(read)"]
                   /\ UNCHANGED inner
              ELSE /\ inner' = inner_add_file(inner, p, ReadBytes(disk[p].text), lang)
                   /\ out' = [op |-> "update_file", path |-> p, ret |-> "Ok"]
        /\ UNCHANGED <<idx, last, disk, concVars, extractVars, tokenizeVars, lockVars>>

\* update_file.  The driver stops calling it once num_docs has reached
\* MaxNumDocs.
UpdateFile ==
    \E p \in Paths :
        /\ inner.bm25.num_docs < MaxNumDocs
        /\ LET lang == detect_language(p)
           IN IF lang = NoLanguage
              THEN /\ out' = [op |-> "update_file", path |-> p, ret |-> "Ok"]
                   /\ UNCHANGED inner
              ELSE IF disk[p] = NoFile
              THEN /\ out' = [op |-> "update_file", path |-> p, ret |-> "Err(stat)"]
                   /\ UNCHANGED inner
              ELSE IF disk[p].len > MAX_FILE_BYTES
              THEN /\ out' = [op |-> "update_file", path |-> p, ret |-> "Ok"]
                   /\ UNCHANGED inner
              ELSE IF ~disk[p].readable
              THEN /\ out' = [op |-> "update_file", path |-> p, ret |-> "Err(read)"]
                   /\ UNCHANGED inner
              ELSE /\ inner' = inner_add_file(inner, p, ReadBytes(disk[p].text), lang)
                   /\ out' = [op |-> "update_file", path |-> p, ret |-> "Ok"]
        /\ UNCHANGED <<idx, last, disk, concVars, extractVars, tokenizeVars, lockVars>>

\* remove_file.
RemoveFile ==
    \E p \in Paths :
        /\ inner' = inner_remove_file(inner, p)
        /\ out' = [op |-> "remove_file", path |-> p, ret |-> "Ok"]
        /\ UNCHANGED <<idx, last, disk, concVars, extractVars, tokenizeVars, lockVars>>

\* search.
Search ==
    \E q \in ServiceQueries, k \in ServiceTopKs :
        \E order \in ScoreOrders(inner.bm25, Tokens(q)) :
            /\ out' = [op |-> "search", query |-> q, top_k |-> k, ret |-> "Ok",
                       results |-> inner_search(inner, q, k, order)]
            /\ UNCHANGED <<idx, last, inner, disk, concVars, extractVars, tokenizeVars, lockVars>>

\* get_stats.
GetStats ==
    /\ out' = [op |-> "get_stats", ret |-> "Ok", stats |-> inner_stats(inner)]
    /\ UNCHANGED <<idx, last, inner, disk, concVars, extractVars, tokenizeVars, lockVars>>

Init ==
    /\ idx = NewBm25Index
    /\ last = NoCall
    /\ inner = NewInner
    /\ disk = [p \in Paths |-> NoFile]
    /\ out = NoReturn
    /\ lock = 0
    /\ threads = 0
    /\ file_bytes = 0
    /\ extracted = 0
    /\ input = 0
    /\ terms = 0
    /\ locks = 0
    /\ clients = 0

Next ==
    \/ WriteFile
    \/ DeleteFile
    \/ IndexProject
    \/ UpdateFile
    \/ RemoveFile
    \/ Search
    \/ GetStats

Spec == Init /\ [][Next]_vars

\* ----------------------------------------------- the two-file project

\* The two-file project: auth.py defines login(user, password), util.py
\* defines read_file(path).
ScenarioProject ==
    [p \in ScenarioPaths |-> IF p = "auth.py" THEN File(PyLogin) ELSE File(PyReadFile)]

\* The files of the two-file project that are on the disk.
ScenarioPresent(files) == {p \in ScenarioPaths : files[p] # NoFile}

\* The environment writes a file of the project.
ScenarioWrite ==
    \E p \in ScenarioPaths :
        \E f \in ContentsFor(p) :
            /\ disk[p] # f
            /\ disk' = [disk EXCEPT ![p] = f]
            /\ out' = NoReturn
            /\ UNCHANGED <<idx, last, inner, concVars, extractVars, tokenizeVars, lockVars>>

\* The environment deletes a file of the project.
ScenarioDelete ==
    \E p \in ScenarioPaths :
        /\ disk[p] # NoFile
        /\ disk' = [disk EXCEPT ![p] = NoFile]
        /\ out' = NoReturn
        /\ UNCHANGED <<idx, last, inner, concVars, extractVars, tokenizeVars, lockVars>>

\* index_project on the two-file project.
ScenarioIndexProject ==
    \E order \in Perms(ScenarioPresent(disk)) :
        /\ inner' = IndexFiles(NewInner, disk, order)
        /\ out' = [op |-> "index_project", ret |-> "Ok", stats |-> inner_stats(inner')]
        /\ UNCHANGED <<idx, last, disk, concVars, extractVars, tokenizeVars, lockVars>>

\* update_file on a file of the two-file project that can be indexed.
ScenarioUpdateFile ==
    \E p \in ScenarioPaths :
        /\ inner.bm25.num_docs < MaxNumDocs
        /\ disk[p] # NoFile
        /\ disk[p].len <= MAX_FILE_BYTES
        /\ disk[p].readable
        /\ inner' = inner_add_file(inner, p, ReadBytes(disk[p].text), detect_language(p))
        /\ out' = [op |-> "update_file", path |-> p, ret |-> "Ok"]
        /\ UNCHANGED <<idx, last, disk, concVars, extractVars, tokenizeVars, lockVars>>

\* remove_file on a file of the two-file project.
ScenarioRemoveFile ==
    \E p \in ScenarioPaths :
        /\ inner' = inner_remove_file(inner, p)
        /\ out' = [op |-> "remove_file", path |-> p, ret |-> "Ok"]
        /\ UNCHANGED <<idx, last, disk, concVars, extractVars, tokenizeVars, lockVars>>

\* search on the index of the two-file project.
ScenarioSearch ==
    \E q \in ScenarioQueries, k \in {1, 5} :
        \E order \in ScoreOrders(inner.bm25, Tokens(q)) :
            /\ out' = [op |-> "search", query |-> q, top_k |-> k, ret |-> "Ok",
                       results |-> inner_search(inner, q, k, order)]
            /\ UNCHANGED <<idx, last, inner, disk, concVars, extractVars, tokenizeVars, lockVars>>

\* get_stats on the index of the two-file project.
ScenarioGetStats ==
    /\ out' = [op |-> "get_stats", ret |-> "Ok", stats |-> inner_stats(inner)]
    /\ UNCHANGED <<idx, last, inner, disk, concVars, extractVars, tokenizeVars, lockVars>>

InitScenario ==
    /\ idx = 0
    /\ last = 0
    /\ inner = NewInner
    /\ disk = ScenarioProject
    /\ out = NoReturn
    /\ lock = 0
    /\ threads = 0
    /\ file_bytes = 0
    /\ extracted = 0
    /\ input = 0
    /\ terms = 0
    /\ locks = 0
    /\ clients = 0

NextScenario ==
    \/ ScenarioWrite
    \/ ScenarioDelete
    \/ ScenarioIndexProject
    \/ ScenarioUpdateFile
    \/ ScenarioRemoveFile
    \/ ScenarioSearch
    \/ ScenarioGetStats

SpecScenario == InitScenario /\ [][NextScenario]_vars

\* ------------------------------------------- the ranking, on one term

\* The doc ids of the ranked documents are 0..MaxRankId.
MaxRankId == 1

AddRanked ==
    \E id \in 0..MaxRankId, text \in RankTexts :
        /\ idx' = add_document(idx, id, TokensOf[text])
        /\ last' = NoCall
        /\ UNCHANGED <<inner, disk, out, concVars, extractVars, tokenizeVars, lockVars>>

RemoveRanked ==
    \E id \in 0..MaxRankId :
        /\ idx' = remove_document(idx, id)
        /\ last' = NoCall
        /\ UNCHANGED <<inner, disk, out, concVars, extractVars, tokenizeVars, lockVars>>

SearchRanked ==
    \E q \in RankQueries :
        \E order \in ScoreOrders(idx, TokensOf[q]) :
            /\ last' = [op |-> "search", query |-> q, top_k |-> MaxRankId + 1,
                        results |-> search(idx, TokensOf[q], MaxRankId + 1, order)]
            /\ UNCHANGED <<idx, inner, disk, out, concVars, extractVars, tokenizeVars, lockVars>>

NextRank == AddRanked \/ RemoveRanked \/ SearchRanked

SpecRank == InitBm25 /\ [][NextRank]_vars

\* ------------------------------------------------- the tokenizer, driven

\* The identifiers handed to the tokenizer have at most this many segments.
MaxSegments == 4

\* The segments the identifiers are made of: camel segments, snake segments
\* and the underscore alone.
Segments == {"get", "User", "By", "Id", "foo", "_", "_user", "_by", "_id"}

\* The tokenizer has not been called on input.
NotTokenized == [status |-> "none"]

\* The text of a sequence of segments.
RECURSIVE Concat(_)
Concat(segs) == IF Len(segs) = 0 THEN "" ELSE Head(segs) \o Concat(Tail(segs))

\* A segment is added to the identifier.
AppendSegment ==
    \E seg \in Segments :
        /\ Len(input) < MaxSegments
        /\ input' = Append(input, seg)
        /\ terms' = NotTokenized
        /\ UNCHANGED <<idx, last, inner, disk, out, concVars, extractVars, lockVars>>

\* tokenize is called on the identifier.
Tokenize ==
    /\ terms' = [status |-> "tokenized", tokens |-> tokenize(Concat(input))]
    /\ UNCHANGED <<idx, last, inner, disk, out, input, concVars, extractVars, lockVars>>

InitTokenize ==
    /\ idx = 0
    /\ last = 0
    /\ inner = 0
    /\ disk = 0
    /\ out = 0
    /\ lock = 0
    /\ threads = 0
    /\ file_bytes = 0
    /\ extracted = 0
    /\ input = <<>>
    /\ terms = NotTokenized
    /\ locks = 0
    /\ clients = 0

NextTokenize == AppendSegment \/ Tokenize

SpecTokenize == InitTokenize /\ [][NextTokenize]_vars

\* ---------------------------------------------------- texts, tokenized

\* The texts handed to the tokenizer have at most this many pieces.
MaxTextPieces == 4

\* The pieces the texts are made of: words, a camelCase identifier, a
\* character of two bytes, a number, a stop word and two separators.
TextPieces == {"login", "getUser", "é", "42", "the", " ", "."}

\* A piece is added to the text.
AppendPiece ==
    \E piece \in TextPieces :
        /\ Len(input) < MaxTextPieces
        /\ input' = Append(input, piece)
        /\ terms' = NotTokenized
        /\ UNCHANGED <<idx, last, inner, disk, out, concVars, extractVars, lockVars>>

NextText == AppendPiece \/ Tokenize

SpecText == InitTokenize /\ [][NextText]_vars

\* ------------------------------------------------- the extractor, driven

\* The files handed to the extractor have at most this many pieces.
MaxPieces == 3

\* The character U+00E9, two bytes in UTF-8.
EAcute == [kind |-> "char", text |-> "e-acute", width |-> 2, n |-> 1]

\* The pieces the files are made of: a short ASCII text, a line feed, a run
\* of two-byte characters twice as long as the content cap, a byte that is
\* not UTF-8, and the start and the end of a one-line function.
SourcePieces ==
    {Ascii(NotesText), NL, Times(EAcute, MAX_CONTENT_BYTES), Bad(1), DefHead, Quote}

\* The extractor has not been called on file_bytes.
NotExtracted == [status |-> "none"]

\* A piece is added to the file.
BuildSource ==
    \E piece \in SourcePieces :
        /\ Len(file_bytes) < MaxPieces
        /\ file_bytes' = Append(file_bytes, piece)
        /\ extracted' = NotExtracted
        /\ UNCHANGED <<idx, last, inner, disk, out, concVars, tokenizeVars, lockVars>>

\* extract_symbols is called on the file, as a Python file: it returns
\* symbols or panics.
Extract ==
    /\ extracted' =
           IF extract_symbols_panics("work.py", file_bytes, "Python")
           THEN [status |-> "panicked"]
           ELSE [status |-> "returned",
                 symbols |-> extract_symbols("work.py", file_bytes, "Python")]
    /\ UNCHANGED <<idx, last, inner, disk, out, file_bytes, concVars, tokenizeVars, lockVars>>

InitExtract ==
    /\ idx = 0
    /\ last = 0
    /\ inner = 0
    /\ disk = 0
    /\ out = 0
    /\ lock = 0
    /\ threads = 0
    /\ file_bytes = <<>>
    /\ extracted = NotExtracted
    /\ input = 0
    /\ terms = 0
    /\ locks = 0
    /\ clients = 0

NextExtract == BuildSource \/ Extract

SpecExtract == InitExtract /\ [][NextExtract]_vars

\* ------------------------------------------------- the chunker, driven

\* The files handed to chunk_by_lines have at most this many lines.
MaxLines == 95

\* One short line with its line feed.
ShortLine == Ascii("a\n")

\* A line longer than the content cap in which a two-byte character lies
\* across byte MAX_CONTENT_BYTES, with its line feed.
WideLine == <<Quote, Times(EAcute, MAX_CONTENT_BYTES), NL>>

\* The file with one more short line at its end.
WithShortLine(bytes) ==
    IF Len(bytes) > 0 /\ bytes[Len(bytes)].text = ShortLine.text
    THEN [bytes EXCEPT ![Len(bytes)].n = @ + 1]
    ELSE Append(bytes, ShortLine)

\* A short line is added to the file.
AddLine ==
    /\ Len(Lines(file_bytes)) < MaxLines
    /\ file_bytes' = WithShortLine(file_bytes)
    /\ extracted' = NotExtracted
    /\ UNCHANGED <<idx, last, inner, disk, out, concVars, tokenizeVars, lockVars>>

\* The file, still empty, is given the long line.
AddWideLine ==
    /\ file_bytes = <<>>
    /\ file_bytes' = WideLine
    /\ extracted' = NotExtracted
    /\ UNCHANGED <<idx, last, inner, disk, out, concVars, tokenizeVars, lockVars>>

\* chunk_by_lines is called on the file: it returns chunks or panics.
ChunkByLines ==
    /\ extracted' =
           IF chunk_by_lines_panics("notes.py", file_bytes, "python")
           THEN [status |-> "panicked"]
           ELSE [status |-> "returned",
                 symbols |-> chunk_by_lines("notes.py", file_bytes, "python")]
    /\ UNCHANGED <<idx, last, inner, disk, out, file_bytes, concVars, tokenizeVars, lockVars>>

NextChunk == AddLine \/ AddWideLine \/ ChunkByLines

SpecChunk == InitExtract /\ [][NextChunk]_vars

\* ------------------------------------- the service, called by several threads

\* The threads that call the service.
Threads == {"t1", "t2"}

\* The mutex INDEX when no thread holds it.
Unlocked == "unlocked"

\* The project the concurrent callers work on.
ConcProject ==
    [p \in Paths |->
        CASE p = "auth.py" -> File(PyLogin)
          [] p = "lib.js" -> File(JsGetUser)
          [] p = "notes.txt" -> File(NotesText)]

\* The contents the environment gives auth.py while the callers run.
ConcContents == {File(PyLogin), File(PyLogout)}

\* The query the concurrent callers search for.
ConcQuery == "login user"

\* A thread that is in no call: at is "returned" and op names the call it
\* has returned from ("none" at the start).
NotCalled == [op |-> "none", at |-> "returned"]

\* The calls a thread may make, each at its first step: "lock" when the
\* function begins with INDEX.lock(), "start" for update_file, which looks at
\* the file first.  fresh tells of an update_file(p) that, since it was
\* called, p's content has not changed and no remove_file(p) has run.
Calls ==
    {[op |-> "index_project", at |-> "lock"],
     [op |-> "search", at |-> "lock"],
     [op |-> "get_stats", at |-> "lock"]}
    \cup {[op |-> "update_file", at |-> "start", path |-> p, fresh |-> TRUE] : p \in Paths}
    \cup {[op |-> "remove_file", at |-> "lock", path |-> p] : p \in Paths}

\* A thread calls one of the five functions.
Call ==
    \E t \in Threads, c \in Calls :
        /\ threads[t].at = "returned"
        /\ threads' = [threads EXCEPT ![t] = c]
        /\ UNCHANGED <<idx, last, inner, disk, out, lock, extractVars, tokenizeVars, lockVars>>

\* The calls of update_file(p), by threads other than t, are fresh no more.
Overtaken(t, p) ==
    [u \in Threads |->
        IF u # t /\ threads[u].op = "update_file" /\ threads[u].path = p
        THEN [threads[u] EXCEPT !.fresh = FALSE]
        ELSE threads[u]]

\* The environment rewrites auth.py.
EditFile ==
    \E f \in ConcContents :
        /\ disk["auth.py"] # f
        /\ disk' = [disk EXCEPT !["auth.py"] = f]
        /\ threads' = Overtaken("environment", "auth.py")
        /\ UNCHANGED <<idx, last, inner, out, lock, extractVars, tokenizeVars, lockVars>>

\* index_project, scoped lock: the guard is dropped right after the index
\* is reset, so the walk runs without the mutex.
IndexProjectLockScoped ==
    \E t \in Threads :
        /\ threads[t].op = "index_project"
        /\ threads[t].at = "lock"
        /\ lock = Unlocked
        /\ inner' = NewInner
        /\ threads' = [threads EXCEPT ![t] =
               [op |-> "index_project", at |-> "walk", todo |-> Paths, seen |-> <<>>]]
        /\ UNCHANGED <<idx, last, disk, out, lock, extractVars, tokenizeVars, lockVars>>

\* index_project up to the walk: INDEX.lock() returns once the mutex is
\* free, the guard is kept, and the index is replaced by a new one.  todo
\* are the paths the walk has not come to yet, seen the files it has found,
\* in its order, with the content it found.
IndexProjectLock ==
    \E t \in Threads :
        /\ threads[t].op = "index_project"
        /\ threads[t].at = "lock"
        /\ lock = Unlocked
        /\ lock' = t
        /\ inner' = NewInner
        /\ threads' = [threads EXCEPT ![t] =
               [op |-> "index_project", at |-> "walk", todo |-> Paths, seen |-> <<>>]]
        /\ UNCHANGED <<idx, last, disk, out, extractVars, tokenizeVars, lockVars>>

\* One iteration of index_project's loop: the walk comes to a path, in an
\* order the file system decides; a path with no file yields no entry.
IndexProjectVisit ==
    \E t \in Threads :
        /\ threads[t].op = "index_project"
        /\ threads[t].at = "walk"
        /\ \E p \in threads[t].todo :
               /\ inner' = IF disk[p] = NoFile THEN inner
                           ELSE IndexFiles(inner, disk, <<p>>)
               /\ threads' = [threads EXCEPT
                      ![t].todo = @ \ {p},
                      ![t].seen = IF disk[p] = NoFile THEN @
                                  ELSE Append(@, [path |-> p, file |-> disk[p]])]
        /\ UNCHANGED <<idx, last, disk, out, lock, extractVars, tokenizeVars, lockVars>>

\* The end of index_project: the stats are returned and the guard dropped.
IndexProjectReturn ==
    \E t \in Threads :
        /\ threads[t].op = "index_project"
        /\ threads[t].at = "walk"
        /\ threads[t].todo = {}
        /\ threads' = [threads EXCEPT ![t] =
               [op |-> "index_project", at |-> "returned", ret |-> "Ok",
                stats |-> inner_stats(inner)]]
        /\ lock' = IF lock = t THEN Unlocked ELSE lock
        /\ UNCHANGED <<idx, last, inner, disk, out, extractVars, tokenizeVars, lockVars>>

\* search: the mutex is taken, the index searched and the mutex released.
SearchLocked ==
    \E t \in Threads :
        /\ threads[t].op = "search"
        /\ threads[t].at = "lock"
        /\ lock = Unlocked
        /\ \E k \in ServiceTopKs :
               \E order \in ScoreOrders(inner.bm25, Tokens(ConcQuery)) :
                   threads' = [threads EXCEPT ![t] =
                       [op |-> "search", at |-> "returned", ret |-> "Ok",
                        results |-> inner_search(inner, ConcQuery, k, order)]]
        /\ UNCHANGED <<idx, last, inner, disk, out, lock, extractVars, tokenizeVars, lockVars>>

\* get_stats, in the same way.
GetStatsLocked ==
    \E t \in Threads :
        /\ threads[t].op = "get_stats"
        /\ threads[t].at = "lock"
        /\ lock = Unlocked
        /\ threads' = [threads EXCEPT ![t] =
               [op |-> "get_stats", at |-> "returned", ret |-> "Ok",
                stats |-> inner_stats(inner)]]
        /\ UNCHANGED <<idx, last, inner, disk, out, lock, extractVars, tokenizeVars, lockVars>>

\* remove_file, in the same way.
RemoveFileLocked ==
    \E t \in Threads :
        /\ threads[t].op = "remove_file"
        /\ threads[t].at = "lock"
        /\ lock = Unlocked
        /\ inner' = inner_remove_file(inner, threads[t].path)
        /\ threads' = [Overtaken(t, threads[t].path) EXCEPT ![t] =
               [op |-> "remove_file", at |-> "returned", ret |-> "Ok",
                path |-> threads[t].path]]
        /\ UNCHANGED <<idx, last, disk, out, lock, extractVars, tokenizeVars, lockVars>>

\* update_file before the mutex: the language is found from the path, the
\* file's metadata and bytes are read.  The call returns here for a path
\* of no language, a file that is not there or one over the size cap.
UpdateFileRead ==
    \E t \in Threads :
        /\ threads[t].op = "update_file"
        /\ threads[t].at = "start"
        /\ LET p == threads[t].path
               back(r) == [op |-> "update_file", at |-> "returned", ret |-> r, path |-> p,
                           fresh |-> threads[t].fresh]
           IN threads' = [threads EXCEPT ![t] =
                  IF detect_language(p) = NoLanguage THEN back("Ok")
                  ELSE IF disk[p] = NoFile THEN back("Err(stat)")
                  ELSE IF disk[p].len > MAX_FILE_BYTES THEN back("Ok")
                  ELSE IF ~disk[p].readable THEN back("Err(read)")
                  ELSE [op |-> "update_file", at |-> "lock", path |-> p,
                        fresh |-> threads[t].fresh,
                        bytes |-> ReadBytes(disk[p].text)]]
        /\ UNCHANGED <<idx, last, inner, disk, out, lock, extractVars, tokenizeVars, lockVars>>

\* update_file from INDEX.lock() on: add_file with the bytes read before.
UpdateFileLocked ==
    \E t \in Threads :
        /\ threads[t].op = "update_file"
        /\ threads[t].at = "lock"
        /\ lock = Unlocked
        /\ inner' = inner_add_file(inner, threads[t].path, threads[t].bytes,
                                   detect_language(threads[t].path))
        /\ threads' = [threads EXCEPT ![t] =
               [op |-> "update_file", at |-> "returned", ret |-> "Ok",
                path |-> threads[t].path, fresh |-> threads[t].fresh]]
        /\ UNCHANGED <<idx, last, disk, out, lock, extractVars, tokenizeVars, lockVars>>

InitConc ==
    /\ idx = 0
    /\ last = 0
    /\ inner = NewInner
    /\ disk = ConcProject
    /\ out = 0
    /\ lock = Unlocked
    /\ threads = [t \in Threads |-> NotCalled]
    /\ file_bytes = 0
    /\ extracted = 0
    /\ input = 0
    /\ terms = 0
    /\ locks = 0
    /\ clients = 0

NextConc ==
    \/ Call
    \/ EditFile
    \/ IndexProjectLock
    \/ IndexProjectVisit
    \/ IndexProjectReturn
    \/ SearchLocked
    \/ GetStatsLocked
    \/ RemoveFileLocked
    \/ UpdateFileRead
    \/ UpdateFileLocked

SpecConc == InitConc /\ [][NextConc]_vars

\* ----------------------------------------------------------- lock registry

\* LockState::new.
NewLockState ==
    [readers |-> 0, writer |-> FALSE, waiting_readers |-> <<>>,
     waiting_writers |-> <<>>, next_ticket |-> 0]

\* LockState::is_empty.
is_empty(lock_state) ==
    /\ lock_state.readers = 0
    /\ ~lock_state.writer
    /\ Len(lock_state.waiting_readers) = 0
    /\ Len(lock_state.waiting_writers) = 0

\* locks.entry(key).or_insert_with(LockState::new): the state of key in the
\* registry reg, a new one if the registry has none.
Entry(reg, key) == IF key \in DOMAIN reg THEN reg[key] ELSE NewLockState

\* The registry with lock_state as the state of key.
Insert(reg, key, lock_state) ==
    [k \in (DOMAIN reg) \cup {key} |-> IF k = key THEN lock_state ELSE reg[k]]

\* locks.remove(key).
Remove(reg, key) == [k \in (DOMAIN reg) \ {key} |-> reg[k]]

\* VecDeque::contains and the queue without a ticket.
Contains(queue, ticket) == \E i \in DOMAIN queue : queue[i] = ticket
Without(queue, ticket) == SelectSeq(queue, LAMBDA t : t # ticket)

\* What acquire_read_lock does to the state of the key, and whether the
\* lock is acquired at once: there is no writer and no waiting writer.
ReadGranted(lock_state) == ~lock_state.writer /\ Len(lock_state.waiting_writers) = 0

ReadRequested(lock_state) ==
    IF ReadGranted(lock_state)
    THEN [lock_state EXCEPT !.next_ticket = @ + 1, !.readers = @ + 1]
    ELSE [lock_state EXCEPT !.next_ticket = @ + 1,
                            !.waiting_readers = Append(@, lock_state.next_ticket)]

\* acquire_read_lock: the registry after the call.  The call returns the
\* ticket Entry(reg, key).next_ticket and ReadGranted(Entry(reg, key)).
acquire_read_lock(reg, key) == Insert(reg, key, ReadRequested(Entry(reg, key)))

\* acquire_write_lock granting the lock only if no writer is waiting either.
WriteGranted_behind_waiters(lock_state) ==
    ~lock_state.writer /\ lock_state.readers = 0 /\ Len(lock_state.waiting_writers) = 0

\* What acquire_write_lock does to the state of the key, and whether the
\* lock is acquired at once: there is no writer and no reader.
WriteGranted(lock_state) == ~lock_state.writer /\ lock_state.readers = 0

WriteRequested(lock_state) ==
    IF WriteGranted(lock_state)
    THEN [lock_state EXCEPT !.next_ticket = @ + 1, !.writer = TRUE]
    ELSE [lock_state EXCEPT !.next_ticket = @ + 1,
                            !.waiting_writers = Append(@, lock_state.next_ticket)]

\* acquire_write_lock: the registry after the call.  The call returns the
\* ticket Entry(reg, key).next_ticket and WriteGranted(Entry(reg, key)).
acquire_write_lock(reg, key) == Insert(reg, key, WriteRequested(Entry(reg, key)))

\* check_read_lock.
check_read_lock(reg, key, ticket) ==
    /\ key \in DOMAIN reg
    /\ \/ ~Contains(reg[key].waiting_readers, ticket)
       \/ /\ reg[key].waiting_readers[1] = ticket
          /\ ~reg[key].writer
          /\ Len(reg[key].waiting_writers) = 0

\* check_write_lock.
check_write_lock(reg, key, ticket) ==
    /\ key \in DOMAIN reg
    /\ \/ ~Contains(reg[key].waiting_writers, ticket)
       \/ /\ reg[key].waiting_writers[1] = ticket
          /\ ~reg[key].writer
          /\ reg[key].readers = 0

\* finalize_read_lock.
finalize_read_lock(reg, key, ticket) ==
    IF key \in DOMAIN reg /\ Contains(reg[key].waiting_readers, ticket)
    THEN [reg EXCEPT ![key].waiting_readers = Without(@, ticket),
                     ![key].readers = @ + 1]
    ELSE reg

\* finalize_write_lock.
finalize_write_lock(reg, key, ticket) ==
    IF key \in DOMAIN reg /\ Contains(reg[key].waiting_writers, ticket)
    THEN [reg EXCEPT ![key].waiting_writers = Without(@, ticket),
                     ![key].writer = TRUE]
    ELSE reg

\* The end of a release that leaves the key in the registry whatever its
\* state is.
Cleaned_never(reg, key) == reg

\* The end of release_read_lock and release_write_lock: the key is removed
\* if its state is empty.
Cleaned(reg, key) == IF is_empty(reg[key]) THEN Remove(reg, key) ELSE reg

\* release_read_lock.
release_read_lock(reg, key) ==
    IF key \in DOMAIN reg
    THEN Cleaned([reg EXCEPT ![key].readers = IF @ > 0 THEN @ - 1 ELSE @], key)
    ELSE reg

\* release_write_lock.
release_write_lock(reg, key) ==
    IF key \in DOMAIN reg
    THEN Cleaned([reg EXCEPT ![key].writer = FALSE], key)
    ELSE reg

\* The sum of the values of the function f over the keys in S.
RECURSIVE SumOver(_, _)
SumOver(f, S) ==
    IF S = {} THEN 0
    ELSE LET k == CHOOSE x \in S : TRUE
         IN f[k] + SumOver(f, S \ {k})

\* get_lock_stats.
get_lock_stats(reg) ==
    [total_locks |-> Cardinality(DOMAIN reg),
     active_readers |-> SumOver([k \in DOMAIN reg |-> reg[k].readers], DOMAIN reg),
     active_writers |-> Cardinality({k \in DOMAIN reg : reg[k].writer}),
     waiting_readers |->
         SumOver([k \in DOMAIN reg |-> Len(reg[k].waiting_readers)], DOMAIN reg),
     waiting_writers |->
         SumOver([k \in DOMAIN reg |-> Len(reg[k].waiting_writers)], DOMAIN reg)]

\* ----------------------------------------------- the lock registry, driven

\* The keys and the clients.
LockKeys == {"k1", "k2"}
Clients == {"c1", "c2", "c3"}

\* A client that neither holds nor waits for a lock; key is the key it
\* released last.
NoKey == "none"
Idle == [at |-> "idle", key |-> NoKey]

\* Where a client is after its request: holding the lock if it was acquired
\* at once, waiting with its ticket otherwise.  ahead are the tickets of
\* the writers that were waiting for the key when the request was made.
Requested(mode, key, ticket, acquired, ahead) ==
    [at |-> IF acquired THEN "holding" ELSE "waiting",
     mode |-> mode, key |-> key, ticket |-> ticket, ahead |-> ahead]

\* An idle client calls acquire_read_lock.  The drivers stop requesting a
\* key once its next_ticket has reached MaxTicket.
AcquireRead ==
    \E c \in Clients, key \in LockKeys :
        /\ clients[c].at = "idle"
        /\ Entry(locks, key).next_ticket < MaxTicket
        /\ locks' = acquire_read_lock(locks, key)
        /\ clients' = [clients EXCEPT ![c] =
               Requested("read", key, Entry(locks, key).next_ticket,
                         ReadGranted(Entry(locks, key)),
                         Range(Entry(locks, key).waiting_writers))]
        /\ UNCHANGED <<idx, last, inner, disk, out, concVars, extractVars, tokenizeVars>>

\* An idle client calls acquire_write_lock.
AcquireWrite ==
    \E c \in Clients, key \in LockKeys :
        /\ clients[c].at = "idle"
        /\ Entry(locks, key).next_ticket < MaxTicket
        /\ locks' = acquire_write_lock(locks, key)
        /\ clients' = [clients EXCEPT ![c] =
               Requested("write", key, Entry(locks, key).next_ticket,
                         WriteGranted(Entry(locks, key)),
                         Range(Entry(locks, key).waiting_writers))]
        /\ UNCHANGED <<idx, last, inner, disk, out, concVars, extractVars, tokenizeVars>>

\* A waiting client calls the check of its mode with its ticket; when the
\* check returns true the client may finalize.
Check ==
    \E c \in Clients :
        /\ clients[c].at = "waiting"
        /\ IF clients[c].mode = "read"
           THEN check_read_lock(locks, clients[c].key, clients[c].ticket)
           ELSE check_write_lock(locks, clients[c].key, clients[c].ticket)
        /\ clients' = [clients EXCEPT ![c].at = "checked"]
        /\ UNCHANGED <<idx, last, inner, disk, out, locks, concVars, extractVars, tokenizeVars>>

\* A client whose check returned true calls the finalize of its mode.
Finalize ==
    \E c \in Clients :
        /\ clients[c].at = "checked"
        /\ locks' = IF clients[c].mode = "read"
                    THEN finalize_read_lock(locks, clients[c].key, clients[c].ticket)
                    ELSE finalize_write_lock(locks, clients[c].key, clients[c].ticket)
        /\ clients' = [clients EXCEPT ![c].at = "holding"]
        /\ UNCHANGED <<idx, last, inner, disk, out, concVars, extractVars, tokenizeVars>>

\* A client that holds a lock calls the release of its mode.
Release ==
    \E c \in Clients :
        /\ clients[c].at = "holding"
        /\ locks' = IF clients[c].mode = "read"
                    THEN release_read_lock(locks, clients[c].key)
                    ELSE release_write_lock(locks, clients[c].key)
        /\ clients' = [clients EXCEPT ![c] = [at |-> "idle", key |-> clients[c].key]]
        /\ UNCHANGED <<idx, last, inner, disk, out, concVars, extractVars, tokenizeVars>>

InitLock ==
    /\ idx = 0
    /\ last = 0
    /\ inner = 0
    /\ disk = 0
    /\ out = 0
    /\ lock = 0
    /\ threads = 0
    /\ file_bytes = 0
    /\ extracted = 0
    /\ input = 0
    /\ terms = 0
    /\ locks = [k \in {} |-> NewLockState]
    /\ clients = [c \in Clients |-> Idle]

NextLock ==
    \/ AcquireRead
    \/ AcquireWrite
    \/ Check
    \/ Finalize
    \/ Release

SpecLock == InitLock /\ [][NextLock]_vars

\* ------------------------------------------------------------------ claims

\* The doc ids that occur in some posting list of the service's index.
PostedIds ==
    UNION {{inner.bm25.inverted_index[t][i][1] : i \in DOMAIN inner.bm25.inverted_index[t]} :
           t \in DOMAIN inner.bm25.inverted_index}

\* C1 (as claimed): every allocated doc id is either live (length > 0, a
\* Symbol stored at its slot, not in the free-list) or free (length 0, slot
\* empty, in no posting list, in the free-list), never in a mixed state.
C1_LiveOrFree ==
    \A id \in 0..(inner.next_id - 1) :
        LET len == DocLen(inner.bm25, id)
            stored == id < Len(inner.symbols) /\ inner.symbols[id + 1] # None
            listed == id \in Range(inner.free_ids)
        IN \/ (len > 0 /\ stored /\ ~listed)
           \/ (len = 0 /\ ~stored /\ id \notin PostedIds /\ listed)

\* The symbols that a search of the service returns now, for some query,
\* some top_k and some iteration order of the scores.
ReturnedSymbols ==
    UNION {UNION {UNION {{r.symbol : r \in Range(inner_search(inner, q, k, order))} :
                            order \in ScoreOrders(inner.bm25, Tokens(q))} :
                     k \in ServiceTopKs} :
              q \in ServiceQueries}

\* The symbols of the content that file p has on the disk now.
CurrentSymbols(p) ==
    IF disk[p] = NoFile \/ detect_language(p) = NoLanguage THEN {}
    ELSE Range(extract_symbols(p, ReadBytes(disk[p].text), detect_language(p)))

RECURSIVE LengthSum(_, _)
LengthSum(ix, S) ==
    IF S = {} THEN 0
    ELSE LET d == CHOOSE x \in S : TRUE
         IN ix.doc_lengths[d + 1] + LengthSum(ix, S \ {d})

\* The postings of doc id d in the posting list of term t.
PostingsOf(ix, t, d) == SelectSeq(ix.inverted_index[t], LAMBDA p : p[1] = d)

\* The doc ids a direct caller may name: those of the driver and one beyond
\* the length table.
AnyDocIds == 0..(MaxDocId + 1)

\* C3 (as claimed): in every index state, for every doc id that is not live
\* and every term list, add(id, terms) followed at once by remove(id) leaves
\* num_docs and avg_doc_length as they were before the add.  (For an id that
\* is live before the add, the add replaces the document and the remove
\* takes it away, so the case the round trip is about is the non-live id.)
C3_RoundTripRestores ==
    \A id \in AnyDocIds, text \in DocTexts :
        id \notin LiveIds(idx) =>
            LET back == remove_document(add_document(idx, id, TokensOf[text]), id)
            IN /\ back.num_docs = idx.num_docs
               /\ back.avg_doc_length = idx.avg_doc_length

\* C4 (as claimed): num_docs, the N that search uses, equals the number of
\* doc ids whose recorded length is > 0.
C4_NumDocsIsLiveCount == idx.num_docs = Cardinality(LiveIds(idx))

\* C5: every posting list holds at most one entry per doc id, and every doc
\* id in a posting list is live (its length is > 0); a list may be empty.
C5_PostingsUniqueAndLive ==
    \A t \in DOMAIN idx.inverted_index :
        LET postings == idx.inverted_index[t]
        IN /\ \A i, j \in DOMAIN postings : i # j => postings[i][1] # postings[j][1]
           /\ \A i \in DOMAIN postings : postings[i][1] \in LiveIds(idx)

\* C5's case: after a removal one term's posting list is empty while another
\* term's list holds the postings of two documents.
C5_Witness ==
    /\ \E t \in DOMAIN idx.inverted_index : Len(idx.inverted_index[t]) = 0
    /\ \E t \in DOMAIN idx.inverted_index : Len(idx.inverted_index[t]) = 2

\* C6: the stored average document length is the sum of the lengths of the
\* docs with length > 0 divided by their number, and 0 when there is none.
C6_AvgOverLiveDocs ==
    idx.avg_doc_length =
        IF LiveIds(idx) = {} THEN FZero
        ELSE Frac(LengthSum(idx, LiveIds(idx)), Cardinality(LiveIds(idx)))

\* C6's case: a slot of the length table is 0 after a removal (its terms are
\* still keys of the index) while another document is live.
C6_Witness ==
    /\ \E i \in DOMAIN idx.doc_lengths : idx.doc_lengths[i] = 0
    /\ \E t \in DOMAIN idx.inverted_index : Len(idx.inverted_index[t]) = 0
    /\ LiveIds(idx) # {}
    /\ idx.avg_doc_length # FZero

\* C7: add(doc_id, terms) on a live doc_id gives the state that
\* remove(doc_id) followed by add(doc_id, terms) gives; num_docs is
\* unchanged, and afterwards doc_id has exactly one posting
\* (doc_id, frequency) in the list of each distinct term of the new list and
\* no posting in any other list.
C7_AddIsUpsert ==
    \A id \in LiveIds(idx), text \in DocTexts :
        LET tokens == TokensOf[text]
            up == add_document(idx, id, tokens)
            tf == TermFreq(tokens)
        IN /\ up = add_document(remove_document(idx, id), id, tokens)
           /\ up.num_docs = idx.num_docs
           /\ DOMAIN tf \subseteq DOMAIN up.inverted_index
           /\ \A t \in DOMAIN up.inverted_index :
                  PostingsOf(up, t, id) =
                      IF t \in DOMAIN tf THEN << <<id, tf[t]>> >> ELSE <<>>

\* C7's case: a live document has a posting for a term that a new term list
\* does not hold, so that adding the new list at its id has postings to drop.
C7_Witness ==
    \E id \in LiveIds(idx), text \in DocTexts :
        \E t \in DOMAIN idx.inverted_index :
            /\ Len(PostingsOf(idx, t, id)) = 1
            /\ t \notin Range(TokensOf[text])
            /\ TokensOf[text] # <<>>
            /\ Len(PostingsOf(add_document(idx, id, TokensOf[text]), t, id)) = 0

\* C8: remove(doc_id) on a doc id that is not live (beyond the length table,
\* never added, or removed) returns the index unchanged; a second remove of
\* the same id changes nothing.
C8_RemoveOfNonLiveIsNoop ==
    \A id \in AnyDocIds :
        /\ id \notin LiveIds(idx) => remove_document(idx, id) = idx
        /\ remove_document(remove_document(idx, id), id) = remove_document(idx, id)

\* C8's case: num_docs is positive and a slot inside the length table is
\* not live, beside an id beyond the table.
C8_Witness ==
    /\ idx.num_docs > 0
    /\ \E id \in DocIds : id < Len(idx.doc_lengths) /\ id \notin LiveIds(idx)
    /\ \E id \in AnyDocIds : id >= Len(idx.doc_lengths)
    /\ \E t \in DOMAIN idx.inverted_index : Len(idx.inverted_index[t]) > 0

\* The index holds exactly the three documents of test_bm25_basic.
HoldsBasicDocs ==
    /\ Len(idx.doc_lengths) = Len(BasicDocs)
    /\ \A i \in DOMAIN BasicDocs :
           /\ idx.doc_lengths[i] = Len(TokensOf[BasicDocs[i]])
           /\ \A t \in DOMAIN idx.inverted_index :
                  PostingsOf(idx, t, i - 1) =
                      IF t \in Range(TokensOf[BasicDocs[i]])
                      THEN << <<i - 1, TermFreq(TokensOf[BasicDocs[i]])[t]>> >>
                      ELSE <<>>

C10_SearchResultShape ==
    last.op = "search" =>
        LET r == last.results
        IN /\ Len(r) <= last.top_k
           /\ \A i, j \in DOMAIN r : i # j => r[i][1] # r[j][1]
           /\ \A i \in DOMAIN r : r[i][1] \in LiveIds(idx)
           /\ \A i \in DOMAIN r : i > 1 => r[i - 1][2] >= r[i][2]

\* C10's case: a search returned two documents with different scores.
C10_Witness ==
    /\ last.op = "search"
    /\ Len(last.results) = 2
    /\ last.results[1][2] > last.results[2][2]

\* The doc ids the file map gives to file p (none when p is not a key).
OwnedIds(p) ==
    IF p \in DOMAIN inner.file_docs THEN Range(inner.file_docs[p]) ELSE {}

\* C11: every symbol a search of the service returns is stored now in a slot
\* whose doc id the file map gives to the symbol's file; and right after
\* remove_file(p) has returned, p is not in the file map and no search
\* returns a symbol of p.
C11_ReturnedAreOwned ==
    /\ \A sym \in ReturnedSymbols :
           \E id \in OwnedIds(sym.file_path) :
               id < Len(inner.symbols) /\ inner.symbols[id + 1] = Some(sym)
    /\ out.op = "remove_file" =>
           /\ out.path \notin DOMAIN inner.file_docs
           /\ \A sym \in ReturnedSymbols : sym.file_path # out.path

\* C11's case: remove_file(p) has just removed an indexed file whose term
\* "login" is still a key of the index, its slot is empty, and a search
\* still returns a symbol of another file.
C11_Witness ==
    /\ out.op = "remove_file"
    /\ out.path = "auth.py"
    /\ "login" \in DOMAIN inner.bm25.inverted_index
    /\ inner.bm25.inverted_index["login"] = <<>>
    /\ \E i \in DOMAIN inner.symbols : inner.symbols[i] = None
    /\ ReturnedSymbols # {}

\* The index that index_project builds from nothing over the files seen, in
\* the order they were seen.
IndexOfSeen(seen) ==
    IndexFiles(NewInner,
               [p \in {seen[i].path : i \in DOMAIN seen} |->
                   seen[CHOOSE i \in DOMAIN seen : seen[i].path = p].file],
               [i \in DOMAIN seen |-> seen[i].path])

\* While a thread is inside index_project's walk it holds the mutex and the
\* index is exactly the new index of the files the walk has seen so far.
ReindexAlone ==
    \A t \in Threads :
        threads[t].at = "walk" =>
            /\ lock = t
            /\ inner = IndexOfSeen(threads[t].seen)

\* A step in which a call gets past INDEX.lock() is taken when no
\* index_project is inside its walk, and the step that ends the walk leaves
\* the index as the walk built it.
NoEffectDuringReindex ==
    \A u \in Threads :
        /\ (threads[u].at = "lock" /\ threads'[u].at # "lock") =>
               \A t \in Threads : threads[t].at # "walk"
        /\ (threads[u].at = "walk" /\ threads'[u].at = "returned") =>
               /\ threads[u].todo = {}
               /\ inner' = inner
               /\ threads'[u].stats = inner_stats(IndexOfSeen(threads[u].seen))

\* C12: a call made while an index_project is in progress takes effect only
\* after it has finished; the index in progress holds nothing but the new
\* index of the files walked so far, and no call reads or changes it.
C12_ReindexAtomic == [](ReindexAlone) /\ [][NoEffectDuringReindex]_vars

\* C12's case: an index_project has indexed one file and has more to walk
\* while another thread, which called search, waits at INDEX.lock().
C12_Witness ==
    \E t, u \in Threads :
        /\ threads[t].at = "walk"
        /\ Len(threads[t].seen) = 1
        /\ inner.file_docs # NewInner.file_docs
        /\ threads[t].todo # {}
        /\ threads[u].op = "search"
        /\ threads[u].at = "lock"

\* C13 (as claimed): no call returns an error.  (The mutex is poisoned only
\* by a panic of a thread that holds it; no call of this specification
\* panics, so here a lock failure never occurs.)
C13_NoErrors == out.op # "none" => out.ret = "Ok"

\* The file at path p cannot be stat'ed or cannot be read.
CannotRead(p) == disk[p] = NoFile \/ (disk[p].len <= MAX_FILE_BYTES /\ ~disk[p].readable)

\* C13 (amended): a call returns an error only if it is update_file on a
\* path with a supported extension whose file is missing or cannot be
\* read, and update_file does return an error then; index_project, search,
\* remove_file and get_stats return success whatever the files are.
C13_ErrorsOnlyFromUpdate ==
    out.op # "none" =>
        (out.ret # "Ok" <=>
            /\ out.op = "update_file"
            /\ detect_language(out.path) # NoLanguage
            /\ CannotRead(out.path))

\* C13's case: index_project has returned success on a project that holds an
\* unreadable file, an unsupported one and an indexable one.
C13_Witness ==
    /\ out.op = "index_project"
    /\ out.ret = "Ok"
    /\ disk["auth.py"] = Unreadable
    /\ disk["notes.txt"] # NoFile
    /\ disk["lib.js"] # NoFile
    /\ out.stats.total_files = 1

\* A step in which update_file(p) returns for a path p of no supported
\* language or for a file over the size cap: it returns Ok and the whole
\* index state (ranked index, slots, file map, free-list, stats) is as
\* before.
UpdateOfSkippedFileIsNoop ==
    (/\ out'.op = "update_file"
     /\ \/ detect_language(out'.path) = NoLanguage
        \/ disk[out'.path].len > MAX_FILE_BYTES)
        => /\ out'.ret = "Ok"
           /\ inner' = inner

\* C14: update_file on a path whose extension is unsupported, or whose file
\* exceeds the 512 KB cap, returns success and leaves the index state
\* unchanged.
C14_UpdateSkipIsNoop == [][UpdateOfSkippedFileIsNoop]_vars

\* C14's case: update_file has returned for auth.py, which is over the cap
\* now, while the index holds the symbol of its earlier content.
C14_Witness ==
    /\ out.op = "update_file"
    /\ out.path = "auth.py"
    /\ disk["auth.py"] = BigFile
    /\ "auth.py" \in DOMAIN inner.file_docs
    /\ inner.stats.total_symbols > 0

\* A step in which remove_file(p) returns for a path p that the file map
\* does not hold: it returns Ok and the whole index state is as before.
RemoveOfUnknownFileIsNoop ==
    (out'.op = "remove_file" /\ out'.path \notin DOMAIN inner.file_docs)
        => /\ out'.ret = "Ok"
           /\ inner' = inner

\* Removing a file twice gives the state that removing it once gives.
RemoveFileIdempotent ==
    \A p \in Paths :
        inner_remove_file(inner_remove_file(inner, p), p) = inner_remove_file(inner, p)

\* C15: remove_file on a path that is not in the file map returns success
\* and leaves the index state and the stats unchanged; remove_file is
\* idempotent.
C15_RemoveUnknownIsNoop == [](RemoveFileIdempotent) /\ [][RemoveOfUnknownFileIsNoop]_vars

\* C15's case: remove_file has returned for notes.txt, which is never in the
\* file map, while the index holds a file and a freed slot.
C15_Witness ==
    /\ out.op = "remove_file"
    /\ out.path = "notes.txt"
    /\ inner.stats.total_files > 0
    /\ Len(inner.free_ids) > 0

\* C16: the stats index_project returns (total_files, total_symbols,
\* total_terms and the per-language counts; the elapsed time is left out)
\* are those of an index built from nothing over the project's files, in
\* whatever order the walk yields them: they depend on the project alone,
\* not on the calls made before, so two reindexes of an unchanged project
\* return the same stats.
C16_ReindexStatsDependOnProjectOnly ==
    out.op = "index_project" =>
        \A order \in Perms(Present(disk)) :
            out.stats = inner_stats(IndexFiles(NewInner, disk, order))

\* C16's case: index_project has returned on a project of three files, two of
\* them indexable, which the walk may yield in several orders.
C16_Witness ==
    /\ out.op = "index_project"
    /\ Cardinality(Present(disk)) = 3
    /\ out.stats.total_files = 2
    /\ out.stats.total_terms > 2

\* C17: a search whose query yields no term (the empty string, or a string
\* of stop words, numbers and one-letter words only) returns the empty list
\* on any index, and a search on an index with no live document returns the
\* empty list for any query.
C17_EmptyInputsGiveEmpty ==
    (/\ last.op = "search"
     /\ (last.query \in FilteredQueries \/ LiveIds(idx) = {}))
        => last.results = <<>>

\* C17's case: a search for a query with terms was made on an index whose
\* documents are all removed, while the query's term is still a key of the
\* index and num_docs is still positive.
C17_Witness ==
    /\ last.op = "search"
    /\ TokensOf[last.query] # <<>>
    /\ LiveIds(idx) = {}
    /\ idx.num_docs > 0
    /\ \E i \in DOMAIN TokensOf[last.query] :
           TokensOf[last.query][i] \in DOMAIN idx.inverted_index

\* C18 (as claimed): for every non-empty file in which the parser and the
\* walk find no symbol, extraction returns at least one symbol, and all it
\* returns are of kind chunk.
C18_FallbackCoversNonEmpty ==
    (/\ extracted.status # "none"
     /\ ByteLen(file_bytes) > 0
     /\ Len(Declarations(file_bytes)) = 0)
        => /\ extracted.status = "returned"
           /\ Len(extracted.symbols) >= 1
           /\ \A i \in DOMAIN extracted.symbols : extracted.symbols[i].kind = "chunk"

\* C19 (as claimed): extraction returns a sequence of symbols for any byte
\* content and never panics.
C19_ExtractNeverPanics ==
    extracted.status # "none" => extracted.status = "returned"

\* The segments of input are its camel segments: each one after the first
\* begins with a capital letter (and each ends with a small letter).
IsCamelCase(segs) ==
    /\ Len(segs) > 0
    /\ \A i \in DOMAIN segs : i > 1 => CharAt(segs[i], 1) \in UpperChars
    /\ \A i \in DOMAIN segs : \A j \in 1..Len(segs[i]) : CharAt(segs[i], j) # "_"

\* C20 (as claimed): tokenizing a camelCase identifier emits each of its
\* camel segments lowercased; tokenize("getUserById") contains "get", "user"
\* and "id" and does not contain "by".
C20_CamelSegmentsEmitted ==
    terms.status = "tokenized" =>
        /\ IsCamelCase(input) =>
               \A i \in DOMAIN input : to_lowercase(input[i]) \in Range(terms.tokens)
        /\ Concat(input) = "getUserById" =>
               /\ {"get", "user", "id"} \subseteq Range(terms.tokens)
               /\ "by" \notin Range(terms.tokens)

\* The word contains an underscore.
HasUnderscore(word) == \E j \in 1..Len(word) : CharAt(word, j) = "_"

\* The lowercased camel pieces of the underscore-delimited pieces of word
\* that pass the filter of tokenize.
KeptPieces(word) ==
    {lower \in {to_lowercase(sub) :
                    sub \in UNION {Range(split_camel(part)) :
                                      part \in Range(NonEmpty(Split(word, {"_"})))}} :
        KeepToken(lower)}

\* C21 (as claimed): for a word that contains an underscore, tokenize emits
\* each underscore-delimited piece (split by camel rules, lowercased, kept
\* by the filter) and the whole word lowercased, also when the word has a
\* single piece and a leading or trailing underscore;
\* tokenize("get_user_by_id") contains "user" and "id".
C21_SnakePiecesAndWhole ==
    (terms.status = "tokenized" /\ HasUnderscore(Concat(input))) =>
        /\ KeptPieces(Concat(input)) \subseteq Range(terms.tokens)
        /\ KeepToken(to_lowercase(Concat(input))) =>
               to_lowercase(Concat(input)) \in Range(terms.tokens)
        /\ Concat(input) = "get_user_by_id" =>
               {"user", "id"} \subseteq Range(terms.tokens)

\* The indexes a reindex of the two-file project may leave, one for each
\* order of the walk.
ScenarioIndexes ==
    {IndexFiles(NewInner, ScenarioProject, order) : order \in Perms(ScenarioPaths)}

\* search("login user", 5) has returned, and the index it searched is one
\* a reindex of the two-file project leaves.
ScenarioSearched ==
    /\ inner \in ScenarioIndexes
    /\ out.op = "search"
    /\ out.query = ScenarioQuery
    /\ out.top_k = 5

\* C22: after a reindex of the two-file project, search("login user", 5)
\* returns a non-empty list in descending order of score whose first entry
\* is the symbol named login, with a score above 0.
C22_ScenarioTopIsLogin ==
    ScenarioSearched =>
        /\ Len(out.results) > 0
        /\ \A i \in 1..(Len(out.results) - 1) :
               out.results[i].score >= out.results[i + 1].score
        /\ out.results[1].symbol.name = "login"
        /\ out.results[1].symbol.file_path = "auth.py"
        /\ out.results[1].score > 0

C22_Witness ==
    /\ ScenarioSearched
    /\ disk = ScenarioProject
    /\ inner.stats.total_files = 2
    /\ Len(out.results) = 1

\* The clients that hold the lock of key in a mode.
Holders(key, mode) ==
    {c \in Clients : clients[c].at = "holding" /\ clients[c].key = key
                     /\ clients[c].mode = mode}

\* C23 (as claimed): for every key, the write lock is never held by two
\* clients at once and never held while a client holds the read lock.
C23_WriterExcludesAll ==
    \A key \in LockKeys :
        /\ Cardinality(Holders(key, "write")) <= 1
        /\ Holders(key, "write") # {} => Holders(key, "read") = {}

\* The writers that were waiting for the key of reader r when r made its
\* request and have not released the lock since.
WritersAhead(r) ==
    {w \in Clients : /\ clients[w].at # "idle"
                     /\ clients[w].mode = "write"
                     /\ clients[w].key = clients[r].key
                     /\ clients[w].ticket \in clients[r].ahead}

\* A reader with a writer ahead of it has not been granted the lock:
\* it waits, and check_read_lock returns false for its ticket.
ReaderWaitsForWritersAhead ==
    \A r \in Clients :
        (clients[r].at # "idle" /\ clients[r].mode = "read" /\ WritersAhead(r) # {}) =>
            /\ clients[r].at = "waiting"
            /\ ~check_read_lock(locks, clients[r].key, clients[r].ticket)

\* The readers and the writers that wait for key.
Waiting(key, mode) ==
    {c \in Clients : clients[c].at = "waiting" /\ clients[c].key = key
                     /\ clients[c].mode = mode}

\* A step in which the last reader that holds key releases it while a
\* writer waits for key.
BlockingReaderReleases(key) ==
    /\ \E c \in Holders(key, "read") : clients'[c].at = "idle"
    /\ Holders(key, "read")' = {}
    /\ Waiting(key, "write") # {}

\* After such a step the check of the writer that has waited longest
\* returns true and the check of every waiting reader returns false.
WriterGoesFirst ==
    \A key \in LockKeys :
        BlockingReaderReleases(key) =>
            /\ \E w \in Waiting(key, "write") :
                   check_write_lock(locks', key, clients[w].ticket)
            /\ \A r \in Waiting(key, "read") :
                   ~check_read_lock(locks', key, clients[r].ticket)

\* C24 (as claimed): a reader that requests a key while a writer is waiting
\* for it is not granted the lock, at once or by check_read_lock, until
\* every writer that was waiting before it has acquired and released; when
\* the blocking reader releases, the waiting writer's check returns true
\* and the waiting reader's check returns false.
C24_WriterPriority == [](ReaderWaitsForWritersAhead) /\ [][WriterGoesFirst]_vars

\* The clients that hold or wait for the lock of key.
Users(key) == {c \in Clients : clients[c].at # "idle" /\ clients[c].key = key}

\* Every entry of the registry has a holder or a waiting ticket, and a
\* client that holds or waits; get_lock_stats counts just these entries.
EntriesAreInUse ==
    /\ \A key \in DOMAIN locks : ~is_empty(locks[key]) /\ Users(key) # {}
    /\ get_lock_stats(locks).total_locks =
           Cardinality({key \in LockKeys : ~is_empty(Entry(locks, key))})

\* Whether the entry of key still has a holder or a waiting ticket once a
\* holder in mode has released it.
StillUsed(key, mode) ==
    /\ key \in DOMAIN locks
    /\ \/ Len(locks[key].waiting_readers) > 0
       \/ Len(locks[key].waiting_writers) > 0
       \/ IF mode = "read"
          THEN locks[key].readers > 1 \/ locks[key].writer
          ELSE locks[key].readers > 0

\* After a release the entry of the key is in the registry if and only if
\* it still has a holder or a waiting ticket.
ReleaseKeepsUsedEntries ==
    \A c \in Clients :
        (clients[c].at = "holding" /\ clients'[c].at = "idle") =>
            (clients[c].key \in DOMAIN locks' <=> StillUsed(clients[c].key, clients[c].mode))

\* C25: after a release the key's entry remains in the registry if and only
\* if it still has a holder (readers > 0 or writer) or a waiting ticket;
\* once every holder has released and no waiter remains the entry is gone
\* and total_locks does not count it.
C25_EntriesCleanedUp == [](EntriesAreInUse) /\ [][ReleaseKeepsUsedEntries]_vars

\* c1 has released k1, whose entry is gone, while the entry of k2 is kept
\* for a writer that waits after the holder's release.
C25_Witness ==
    /\ clients["c1"] = [at |-> "idle", key |-> "k1"]
    /\ "k1" \notin DOMAIN locks
    /\ "k2" \in DOMAIN locks
    /\ locks["k2"].readers = 0
    /\ ~locks["k2"].writer
    /\ Len(locks["k2"].waiting_writers) = 1
    /\ get_lock_stats(locks).total_locks = 1

\* The symbols the index holds for file p.
StoredSymbols(p) ==
    IF p \in DOMAIN inner.file_docs
    THEN {inner.symbols[inner.file_docs[p][i] + 1][1] : i \in DOMAIN inner.file_docs[p]}
    ELSE {}

\* C26 (as claimed): when no call is in flight and an update_file(p) has
\* returned that was called after p's content last changed (and no
\* remove_file(p) has run since), the index holds exactly the symbols of
\* p's current content: a call that read p's older content earlier has not
\* overwritten its result.
C26_UpdateIsAtomic ==
    (\A u \in Threads : threads[u].at = "returned") =>
        \A t \in Threads :
            (threads[t].op = "update_file" /\ threads[t].ret = "Ok" /\ threads[t].fresh) =>
                StoredSymbols(threads[t].path) = CurrentSymbols(threads[t].path)

\* How often doc id occurs in the free list, and in the doc-id lists of
\* the files.
TimesFree(id) ==
    Cardinality({i \in DOMAIN inner.free_ids : inner.free_ids[i] = id})

TimesFiled(id) ==
    Cardinality({pi \in {<<p, i>> : p \in DOMAIN inner.file_docs, i \in 1..MaxNumDocs + 1} :
                    /\ pi[2] \in DOMAIN inner.file_docs[pi[1]]
                    /\ inner.file_docs[pi[1]][pi[2]] = id})

\* The number of symbols stored: the doc ids of all the files.
StoredCount(inn) ==
    Cardinality({pi \in {<<p, i>> : p \in DOMAIN inn.file_docs, i \in 1..MaxNumDocs + 1} :
                    pi[2] \in DOMAIN inn.file_docs[pi[1]]})

SlotsAccounted ==
    /\ \A id \in 0..(inner.next_id - 1) : TimesFree(id) + TimesFiled(id) = 1
    /\ \A i \in DOMAIN inner.free_ids : inner.free_ids[i] < inner.next_id
    /\ \A p \in DOMAIN inner.file_docs :
           \A i \in DOMAIN inner.file_docs[p] : inner.file_docs[p][i] < inner.next_id
    /\ Len(inner.symbols) = inner.next_id

GrowsOnlyWhenExhausted ==
    (out'.op = "index_project" \/ inner'.next_id > inner.next_id) =>
        /\ inner'.free_ids = <<>>
        /\ inner'.next_id = StoredCount(inner')

\* C27: after any sequence of reindex, update_file and remove_file every
\* id below next_id is exactly once in the free list or exactly once in
\* the doc-id list of exactly one file; the slot array is next_id long; and
\* the array grows only in a call that has used up the free list, so that
\* after a reindex or a growth next_id is the number of symbols stored.
C27_SlotAccounting == [](SlotsAccounted) /\ [][GrowsOnlyWhenExhausted]_vars

\* Three slots are in use, the two of one file taken from the free list
\* (last freed first), and none is free.
C27_Witness ==
    /\ inner.next_id = 3
    /\ inner.free_ids = <<>>
    /\ \E p \in DOMAIN inner.file_docs :
           /\ Len(inner.file_docs[p]) = 2
           /\ inner.file_docs[p][1] > inner.file_docs[p][2]

\* No posting list of ix holds doc id, and its recorded length is 0.
Clean(ix, id) ==
    /\ \A t \in DOMAIN ix.inverted_index : PostingsOf(ix, t, id) = <<>>
    /\ id < Len(ix.doc_lengths) => ix.doc_lengths[id + 1] = 0

\* Along add_file's loop over syms from state inn, every id that alloc_id
\* pops from the free list is clean at the moment it is popped.
RECURSIVE PopsClean(_, _)
PopsClean(inn, syms) ==
    IF Len(syms) = 0 THEN TRUE
    ELSE /\ Len(inn.free_ids) > 0 => Clean(inn.bm25, inn.free_ids[Len(inn.free_ids)])
         /\ PopsClean(AddSymbols(inn, <<Head(syms)>>, <<>>).inner, Tail(syms))

\* The postings of ix that hold doc id are one per distinct term of the
\* token list, with the term's frequency in it.
ExactPostings(ix, id, tokens) ==
    /\ DOMAIN TermFreq(tokens) \subseteq DOMAIN ix.inverted_index
    /\ \A t \in DOMAIN ix.inverted_index :
           PostingsOf(ix, t, id) =
               IF t \in DOMAIN TermFreq(tokens)
               THEN << <<id, TermFreq(tokens)[t]>> >>
               ELSE <<>>

\* C28: every id of the free list is in no posting list and has length 0,
\* also at the moment add_file takes it for reuse, whatever file is updated
\* next; and the postings that hold a stored id are exactly the distinct
\* terms of the symbol stored there, with its frequencies.
C28_ScrubbedBeforeReuse ==
    /\ \A i \in DOMAIN inner.free_ids : Clean(inner.bm25, inner.free_ids[i])
    /\ \A p \in ScenarioPaths :
           (disk[p] # NoFile /\ disk[p].len <= MAX_FILE_BYTES /\ disk[p].readable) =>
               PopsClean(inner_remove_file(inner, p),
                         extract_symbols(p, ReadBytes(disk[p].text), detect_language(p)))
    /\ \A p \in DOMAIN inner.file_docs :
           \A i \in DOMAIN inner.file_docs[p] :
               ExactPostings(inner.bm25, inner.file_docs[p][i],
                             Tokens(IndexText(inner.symbols[inner.file_docs[p][i] + 1][1])))

\* The two symbols of util.py sit at the ids 1 and 0, both taken from the
\* free list, after auth.py and the earlier util.py were removed.
C28_Witness ==
    /\ inner.next_id = 2
    /\ DOMAIN inner.file_docs = {"util.py"}
    /\ inner.file_docs["util.py"] = <<1, 0>>
    /\ inner.symbols[1] # None
    /\ inner.symbols[1][1].name = "write_file"

\* The symbols index inn holds for file p.
StoredIn(inn, p) ==
    IF p \in DOMAIN inn.file_docs
    THEN {inn.symbols[inn.file_docs[p][i] + 1][1] : i \in DOMAIN inn.file_docs[p]}
    ELSE {}

\* The results search(q, k) may return on index inn when top_k does not
\* cut the ranking: the set of (symbol, score) pairs, for each order in
\* which equal scores may come.
Found(inn, q, k) ==
    {Range(inner_search(inn, q, k, order)) : order \in ScoreOrders(inn.bm25, Tokens(q))}

\* A search that returned fewer than top_k results on an index that holds
\* the symbols of the current contents of the files of paths returned what
\* it returns on the index index_project builds from those files.
FreshBuildAgrees(paths) ==
    (out.op = "search" /\ Len(out.results) < out.top_k) =>
        \A order \in Perms({p \in paths : disk[p] # NoFile}) :
            (\A p \in paths :
                StoredIn(inner, p) = StoredIn(IndexFiles(NewInner, disk, order), p)) =>
                Range(out.results) \in
                    Found(IndexFiles(NewInner, disk, order), out.query, out.top_k)

\* C29 (as claimed): after any sequence of update_file and remove_file
\* following a reindex, search returns the same symbols with the same
\* scores (up to the order of equal scores) as on an index freshly built
\* over the files' current contents.
C29_IncrementalEqualsFresh == FreshBuildAgrees(Paths)

\* The doc ids of the files of the index.
FiledIds(inn) == UNION {Range(inn.file_docs[p]) : p \in DOMAIN inn.file_docs}

\* The distinct terms of the symbols the index holds.
LiveTerms(inn) ==
    UNION {Range(Tokens(IndexText(inn.symbols[id + 1][1]))) : id \in FiledIds(inn)}

\* The terms that have an entry in the inverted index.
Keys(inn) == DOMAIN inn.bm25.inverted_index

\* The stats last returned, by get_stats or by index_project.
StatsReturned == out.op \in {"get_stats", "index_project"}

\* C30 (as claimed): total_terms is the number of distinct terms that occur
\* in at least one symbol the index holds.
C30_TotalTermsAreLive ==
    StatsReturned => out.stats.total_terms = Cardinality(LiveTerms(inner))

StatsCountKeys ==
    /\ LiveTerms(inner) \subseteq Keys(inner)
    /\ StatsReturned =>
           /\ out.stats.total_terms = Cardinality(Keys(inner))
           /\ out.stats.total_terms >= Cardinality(LiveTerms(inner))
    /\ out.op = "index_project" =>
           out.stats.total_terms = Cardinality(LiveTerms(inner))

KeysAccumulate ==
    IF out'.op = "index_project"
    THEN Keys(inner') = LiveTerms(inner')
    ELSE Keys(inner') = Keys(inner) \cup LiveTerms(inner')

\* C30 (amended): total_terms is the number of entries of the inverted
\* index, which are the terms of every symbol indexed since the last
\* reindex: at least the distinct terms of the symbols the index holds, and
\* exactly those in the stats of a reindex; no call but a reindex takes a
\* term away.
C30_TotalTermsSinceReindex == [](StatsCountKeys) /\ [][KeysAccumulate]_vars

\* get_stats counts terms on an index that holds no symbol.
C30_Witness ==
    /\ out.op = "get_stats"
    /\ inner.file_docs = [p \in {} |-> <<>>]
    /\ LiveTerms(inner) = {}
    /\ out.stats.total_terms > 0

\* The slots of the symbol table that hold a symbol, and those of them
\* whose symbol has language l.
FilledSlots(inn) == {i \in DOMAIN inn.symbols : inn.symbols[i] # None}

SlotsOfLanguage(inn, l) == {i \in FilledSlots(inn) : inn.symbols[i][1].language = l}

\* The counters of index inn agree with what it holds.
CountersAgree(inn) ==
    /\ inn.stats.total_files = Cardinality(DOMAIN inn.file_docs)
    /\ inn.stats.total_symbols = Cardinality(FilledSlots(inn))
    /\ inn.stats.total_symbols = StoredCount(inn)
    /\ \A i \in FilledSlots(inn) : inn.symbols[i][1].language \in DOMAIN inn.stats.languages
    /\ \A l \in DOMAIN inn.stats.languages :
           inn.stats.languages[l] = Cardinality(SlotsOfLanguage(inn, l))
    /\ SumOver(inn.stats.languages, DOMAIN inn.stats.languages) = inn.stats.total_symbols

\* C31: after any sequence of reindex, update_file and remove_file,
\* total_files is the number of files of the file map, total_symbols the
\* number of filled slots and the total length of the files' doc-id lists,
\* each language's count the number of stored symbols of that language, the
\* counts summing to total_symbols; the stats returned say the same.
C31_CountersConsistent ==
    /\ CountersAgree(inner)
    /\ StatsReturned =>
           /\ out.stats.total_files = Cardinality(DOMAIN inner.file_docs)
           /\ out.stats.total_symbols = StoredCount(inner)
           /\ out.stats.languages = inner.stats.languages

\* get_stats reports one file with two symbols after another file's
\* symbol was removed and its slot freed.
C31_Witness ==
    /\ out.op = "get_stats"
    /\ out.stats.total_files = 1
    /\ out.stats.total_symbols = 2
    /\ out.stats.languages = [l \in {"python"} |-> 2]
    /\ Len(inner.free_ids) = 1

\* Doc id has in index b the symbol, the length and the postings it has in
\* index a.
SameDocument(a, b, id) ==
    /\ id < Len(b.symbols)
    /\ b.symbols[id + 1] = a.symbols[id + 1]
    /\ id < Len(b.bm25.doc_lengths)
    /\ b.bm25.doc_lengths[id + 1] = a.bm25.doc_lengths[id + 1]
    /\ \A t \in Keys(a) : t \in Keys(b) /\ PostingsOf(b.bm25, t, id) = PostingsOf(a.bm25, t, id)
    /\ \A t \in Keys(b) \ Keys(a) : PostingsOf(b.bm25, t, id) = <<>>

\* A step of update_file(p) or remove_file(p) leaves every other file of
\* the index as it was, and gives none of its ids to p.
OtherFilesKept ==
    out'.op \in {"update_file", "remove_file"} =>
        \A q \in (DOMAIN inner.file_docs) \ {out'.path} :
            /\ q \in DOMAIN inner'.file_docs
            /\ inner'.file_docs[q] = inner.file_docs[q]
            /\ \A id \in Range(inner.file_docs[q]) :
                   /\ SameDocument(inner, inner', id)
                   /\ out'.path \in DOMAIN inner'.file_docs =>
                          id \notin Range(inner'.file_docs[out'.path])

\* C32: update_file(p) and remove_file(p) change only p's contribution:
\* for every other file q the doc-id list, the symbols stored at its ids,
\* their lengths and their postings are unchanged, and none of q's ids is
\* given to a new symbol of p.
C32_OnlyOwnContribution == [][OtherFilesKept]_vars

\* update_file(util.py) has stored two symbols while auth.py holds its
\* own, three slots being in use.
C32_Witness ==
    /\ out.op = "update_file"
    /\ out.path = "util.py"
    /\ DOMAIN inner.file_docs = {"auth.py", "util.py"}
    /\ Len(inner.file_docs["util.py"]) = 2
    /\ Len(inner.file_docs["auth.py"]) = 1
    /\ inner.free_ids = <<>>

\* The files index_project takes from the walk: present, not over the size
\* cap, of a supported extension.
Indexable(p) ==
    /\ disk[p] # NoFile
    /\ disk[p].len <= MAX_FILE_BYTES
    /\ detect_language(p) # NoLanguage

\* Index inn holds nothing but the symbols of the files of the disk that
\* can be indexed, at the doc ids 0, 1, ... and with their postings and
\* lengths only.
BuiltFromDisk(inn) ==
    /\ \A p \in DOMAIN inn.file_docs : Indexable(p) /\ StoredIn(inn, p) = CurrentSymbols(p)
    /\ inn.free_ids = <<>>
    /\ FiledIds(inn) = 0..(inn.next_id - 1)
    /\ StoredCount(inn) = inn.next_id
    /\ Len(inn.symbols) = inn.next_id
    /\ Len(inn.bm25.doc_lengths) = inn.next_id
    /\ Keys(inn) = LiveTerms(inn)
    /\ \A id \in FiledIds(inn) :
           /\ inn.bm25.doc_lengths[id + 1] = Len(Tokens(IndexText(inn.symbols[id + 1][1])))
           /\ ExactPostings(inn.bm25, id, Tokens(IndexText(inn.symbols[id + 1][1])))
    /\ \A t \in Keys(inn) :
           \A i \in DOMAIN inn.bm25.inverted_index[t] :
               inn.bm25.inverted_index[t][i][1] \in FiledIds(inn)

ReindexStartsAnew ==
    (out'.op = "index_project" /\ disk' = disk) => BuiltFromDisk(inner')

\* C33: a reindex discards the previous index: when it returns the file
\* map holds only files the walk found, none over the size cap or of an
\* unsupported extension, every symbol, posting and length belongs to them,
\* the free list is empty and the doc ids are 0, 1, ... again.
C33_ReindexDiscards == [][ReindexStartsAnew]_vars

\* A reindex has returned that left out a file over the size cap and a
\* file of an unsupported extension, and stored the one symbol of lib.js
\* at id 0.
C33_Witness ==
    /\ out.op = "index_project"
    /\ disk["auth.py"] = BigFile
    /\ disk["notes.txt"] # NoFile
    /\ disk["lib.js"] # NoFile
    /\ DOMAIN inner.file_docs = {"lib.js"}
    /\ inner.file_docs["lib.js"] = <<0>>
    /\ inner.next_id = 1

\* The chunks returned are windows over the n lines of the file as the
\* claim describes them.
WindowsAsClaimed(w, n) ==
    /\ Len(w) >= 1
    /\ w[1].line_start = 1
    /\ w[Len(w)].line_end = n
    /\ \A i \in DOMAIN w :
           /\ w[i].line_start <= w[i].line_end
           /\ w[i].line_end - w[i].line_start + 1 <= CHUNK_SIZE
           /\ w[i].kind = "chunk"
           /\ w[i].name = "lines " \o ToString(w[i].line_start) \o "-" \o ToString(w[i].line_end)
    /\ \A i \in DOMAIN w :
           i > 1 => /\ w[i - 1].line_end - w[i].line_start + 1 = OVERLAP
                    /\ w[i].line_end > w[i - 1].line_end
    /\ \A l \in 1..n : \E i \in DOMAIN w : w[i].line_start <= l /\ l <= w[i].line_end

\* C34 (as claimed): chunking a file of n >= 1 lines yields windows of
\* which the first starts at line 1 and the last ends at line n, each of at
\* most 50 lines, each after the first sharing exactly 10 lines with the one
\* before, that cover every line, each named "lines <start>-<end>" after its
\* span.
C34_WindowsCoverFile ==
    (extracted.status # "none" /\ IsUtf8(file_bytes) /\ Len(Lines(file_bytes)) >= 1) =>
        /\ extracted.status = "returned"
        /\ WindowsAsClaimed(extracted.symbols, Len(Lines(file_bytes)))

\* The number of chunks the claim gives for n lines:
\* 1 + ceil((n - 50) / 40) when n > 50.
ChunksClaimed(n) ==
    IF n = 0 THEN 0
    ELSE IF n <= CHUNK_SIZE THEN 1
    ELSE 1 + ((n - CHUNK_SIZE) + (CHUNK_SIZE - OVERLAP) - 1) \div (CHUNK_SIZE - OVERLAP)

\* The loop went on from a window only to one that starts later, and made
\* the number of chunks the claim gives for n lines.
LoopAsClaimed(w, n) ==
    /\ Len(w) = ChunksClaimed(n)
    /\ \A i \in DOMAIN w : i > 1 => w[i].line_start > w[i - 1].line_start

\* C35 (as claimed): the chunking loop ends for every number n >= 0 of
\* lines, the window start growing with every iteration but the last, and
\* makes 0 chunks for n = 0, 1 chunk for 1 <= n <= 50 and
\* 1 + ceil((n - 50) / 40) chunks for n > 50.
C35_LoopEndsWithCount ==
    (extracted.status # "none" /\ IsUtf8(file_bytes)) =>
        /\ extracted.status = "returned"
        /\ LoopAsClaimed(extracted.symbols, Len(Lines(file_bytes)))

\* The bytes of the span of the i-th symbol extracted from file_bytes: the
\* joined lines of a chunk's window, the bytes of a declaration's node.
SpanOf(sym, i) ==
    IF sym.kind = "chunk"
    THEN WindowContent(Lines(file_bytes), <<sym.line_start - 1, sym.line_end>>)
    ELSE Slice(file_bytes, Declarations(file_bytes)[i].start, Declarations(file_bytes)[i].end)

\* content is span cut at the cap: a prefix of span of at most
\* MAX_CONTENT_BYTES bytes, the whole of a span within the cap and not empty
\* for a longer one.
CappedSpan(content, span) ==
    /\ ByteLen(content) <= MAX_CONTENT_BYTES
    /\ ByteLen(content) <= ByteLen(span)
    /\ content = TakeBytes(span, ByteLen(content))
    /\ ByteLen(span) <= MAX_CONTENT_BYTES => content = span
    /\ ByteLen(span) > MAX_CONTENT_BYTES => ByteLen(content) > 0

\* C36 (as claimed): the content of every symbol extracted is the source
\* text of its span cut at the cap: a prefix of the span of at most 8192
\* bytes, the whole span when that has at most 8192 bytes, and a prefix
\* that is not empty when the span is longer.
C36_ContentIsCappedSpan ==
    extracted.status = "returned" =>
        \A i \in DOMAIN extracted.symbols :
            CappedSpan(extracted.symbols[i].content, SpanOf(extracted.symbols[i], i))

\* Term t is as the claim says every term is.
TermAsClaimed(t) ==
    /\ t = to_lowercase(t)
    /\ \A i \in 1..Len(t) : CharAt(t, i) \notin UpperChars
    /\ Len(t) >= 2
    /\ ~AllDigits(t)
    /\ t \notin STOP_WORDS
    /\ \A i \in 1..Len(t) : CharAt(t, i) \notin separators

\* C37 (as claimed): every term tokenize returns is lowercase, has at least
\* 2 characters, is not made of digits only, is no stop word and holds no
\* separator and no whitespace.
C37_TermsWellFormed ==
    terms.status = "tokenized" =>
        \A i \in DOMAIN terms.tokens : TermAsClaimed(terms.tokens[i])

\* How often term t occurs in the list ts.
Occurrences(ts, t) == Cardinality({i \in DOMAIN ts : ts[i] = t})

\* C38: tokenize keeps the order and every repetition: the terms of a text
\* a, a space and a text b are the terms of a followed by the terms of b;
\* and add_document records every term with the number of times it occurs
\* in the list.
C38_TokenizeConcatenates ==
    terms.status = "tokenized" =>
        /\ \A k \in DOMAIN input :
               input[k] = " " =>
                   terms.tokens = tokenize(Concat(SubSeq(input, 1, k - 1)))
                                  \o tokenize(Concat(SubSeq(input, k + 1, Len(input))))
        /\ \A t \in Range(terms.tokens) :
               add_document(NewBm25Index, 0, terms.tokens).inverted_index[t] =
                   << <<0, Occurrences(terms.tokens, t)>> >>

\* The text "getUser getUser " has been tokenized: user and getuser
\* come twice, in the order of the text.
C38_Witness ==
    /\ terms.status = "tokenized"
    /\ input = <<"getUser", " ", "getUser", " ">>
    /\ terms.tokens = <<"user", "getuser", "user", "getuser">>

\* The frequency of term t in doc d of idx: the count of its posting.
TfOf(t, d) == PostingsOf(idx, t, d)[1][2]

\* Result a of a search for term t ranks above result b on account of
\* frequency or of length.
RanksAbove(t, a, b) ==
    \/ /\ DocLen(idx, a[1]) = DocLen(idx, b[1])
       /\ TfOf(t, a[1]) > TfOf(t, b[1])
    \/ /\ TfOf(t, a[1]) = TfOf(t, b[1])
       /\ DocLen(idx, a[1]) < DocLen(idx, b[1])

\* C39: in the results of a one-term query, of two documents of equal
\* length the one with the higher term frequency has the strictly higher
\* score, of two with equal term frequency the shorter one has, and every
\* score is > 0.
C39_RankingMonotone ==
    (last.op = "search" /\ Len(TokensOf[last.query]) = 1) =>
        /\ \A i \in DOMAIN last.results : last.results[i][2] > 0
        /\ \A i, j \in DOMAIN last.results :
               RanksAbove(TokensOf[last.query][1], last.results[i], last.results[j]) =>
                   /\ last.results[i][2] > last.results[j][2]
                   /\ i < j

\* A search for user has returned two documents of three terms: the one
\* with user twice comes first, with the higher score.
C39_Witness ==
    /\ last.op = "search"
    /\ last.query = "user"
    /\ Len(last.results) = 2
    /\ DocLen(idx, last.results[1][1]) = 3
    /\ DocLen(idx, last.results[2][1]) = 3
    /\ TfOf("user", last.results[1][1]) = 2
    /\ TfOf("user", last.results[2][1]) = 1
    /\ last.results[1][2] > last.results[2][2]

====
